---- MODULE Spec2Model ----
(***************************************************************************)
(* Model of the Vulkan triangle renderer (src/src/main.rs, math3d.rs).     *)
(* The program is one thread: main() builds a VulkanApp, runs init_glfw,   *)
(* init_vulkan and main_loop, and drops the VulkanApp (normally, or while  *)
(* unwinding from a panic).  The platform (GLFW, the Vulkan driver, the    *)
(* GPU) is the environment: it decides the result code of every call, the  *)
(* lists it enumerates, and the window events it delivers.                 *)
(***************************************************************************)
EXTENDS Integers, Sequences, FiniteSets, TLC

\* ------------------------------------------------------------------ bounds
MaxFrames   == 2   \* most iterations of the render loop
MaxDevices  == 2   \* longest list of physical devices (SpecPick)
MaxFamilies == 3   \* longest list of queue families (SpecFamilies)
MaxFormats  == 2   \* longest list of surface formats (SpecSwap)
MaxModes    == 2   \* longest list of present modes (SpecSwap)
MaxLayers   == 3   \* layers the platform enumerates
MaxSize     == 9   \* largest size_of of the position field (SpecOffsets)
MaxExtent   == 3   \* largest width or height a surface allows (SpecExtent)
MaxImages   == 4   \* largest minImageCount of a surface (SpecImages)

\* --------------------------------------------------------------- constants
NULL   == 0        \* std::ptr::null_mut()
HANDLE == 1        \* any non-null handle written by a successful create call
WINDOW_WIDTH  == 800
WINDOW_HEIGHT == 600
U32_MAX == 2147483647   \* u32::MAX, at the width of the model checker's integers
VALIDATION_LAYERS == <<"VK_LAYER_KHRONOS_validation">>
DEVICE_EXTENSIONS == <<"VK_KHR_swapchain">>
DEBUG_UTILS_EXTENSION == "VK_EXT_debug_utils"
\* What glfwGetRequiredInstanceExtensions returns on the platform of the runs.
GLFW_EXTENSIONS == <<"VK_KHR_surface", "VK_KHR_xcb_surface">>

\* const VERTICES, the coordinates and colours in tenths
VERTICES ==
  <<[pos |-> <<0, -5>>, color |-> <<10, 0, 0>>],
    [pos |-> <<5, 5>>,  color |-> <<0, 10, 0>>],
    [pos |-> <<-5, 5>>, color |-> <<0, 0, 10>>]>>

VK_SUCCESS    == "VK_SUCCESS"
VK_SUBOPTIMAL == "VK_SUBOPTIMAL_KHR"
VK_OUT_OF_DATE == "VK_ERROR_OUT_OF_DATE_KHR"
VK_ERROR      == "VK_ERROR"            \* any other failure code
CreateResults == {VK_SUCCESS, VK_ERROR}
QueueResults  == {VK_SUCCESS, VK_SUBOPTIMAL, VK_OUT_OF_DATE, VK_ERROR}

B8G8R8A8_SRGB  == "VK_FORMAT_B8G8R8A8_SRGB"
SRGB_NONLINEAR == "VK_COLOR_SPACE_SRGB_NONLINEAR_KHR"
FIFO      == "VK_PRESENT_MODE_FIFO_KHR"
MAILBOX   == "VK_PRESENT_MODE_MAILBOX_KHR"
IMMEDIATE == "VK_PRESENT_MODE_IMMEDIATE_KHR"

VARIABLES
  pc,          \* position of the main thread
  app,         \* the VulkanApp struct
  validation,  \* ENABLE_VALIDATION_LAYERS of this build
  layers,      \* layer names the platform enumerates
  devices,     \* physical devices the platform enumerates, in order
  caps,        \* capabilities the surface reports
  fb_size,     \* framebuffer size of the window, <<width, height>>
  gpu,         \* driver side: fence state and outstanding submissions
  loc,         \* locals of the function being executed that later steps read
  stages,      \* history: <<function, result>> of the setup calls of main
  created,     \* history: kinds of object created, in call order
  destroyed,   \* history: <<kind, handle>> of every destroy call, in order
  failed,      \* the API call that returned a failure code to the last function run, or "none"
  err,         \* the Err/panic message that ended the run, or "none"
  frames,      \* render loop iterations started
  examined,    \* history: indices of the devices is_device_suitable was asked about
  queue_fam,   \* history: what find_queue_families returned to create_logical_device
  sc,          \* swap chain: locals and create info of the last create_swap_chain
  offs,        \* Vertex::color_offset(): its inputs, loop variable and position
  frame        \* what the draw_frame call of this loop iteration has done so far

vars == <<pc, app, validation, layers, devices, caps, fb_size, gpu, loc, stages,
          created, destroyed, failed, err, frames, examined, queue_fam, sc, offs, frame>>

env   == <<validation, layers, devices, caps>>
hist  == <<stages, created, destroyed, failed, examined, queue_fam>>

\* ------------------------------------------------------------ small helpers
Range(s) == {s[i] : i \in 1..Len(s)}

SeqsUpTo(S, n) == UNION {[1..k -> S] : k \in 0..n}

\* VulkanApp::new(): every handle null, every Vec empty.
NewApp ==
  [window |-> NULL, vk_instance |-> NULL, debug_messenger |-> NULL,
   surface |-> NULL, physical_device |-> NULL, device |-> NULL,
   graphics_queue |-> NULL, present_queue |-> NULL, swap_chain |-> NULL,
   swap_chain_images |-> <<>>, swap_chain_image_format |-> "0",
   swap_chain_extent |-> <<0, 0>>, swap_chain_image_views |-> <<>>,
   render_pass |-> NULL, pipeline_layout |-> NULL, graphics_pipeline |-> NULL,
   swap_chain_framebuffers |-> <<>>, command_pool |-> NULL,
   command_buffer |-> NULL, image_available_semaphore |-> NULL,
   render_finished_semaphore |-> NULL, in_flight_fence |-> NULL,
   framebuffer_resized |-> FALSE, vertex_buffer |-> NULL,
   vertex_buffer_memory |-> NULL]

\* --------------------------------------------------- the platform's answers
\* A queue family: whether its flags hold VK_QUEUE_GRAPHICS_BIT, and whether
\* vkGetPhysicalDeviceSurfaceSupportKHR reports it can present to the surface.
FamilyValues == [graphics : BOOLEAN, present : BOOLEAN]

\* A VkSurfaceFormatKHR.
FormatValues == [format : {B8G8R8A8_SRGB, "VK_FORMAT_R8G8B8A8_UNORM"},
                 colorSpace : {SRGB_NONLINEAR, "VK_COLOR_SPACE_DISPLAY_P3_NONLINEAR_EXT"}]

ModeValues == {IMMEDIATE, MAILBOX, FIFO}

\* A physical device as the enumerate/query calls describe it.
Device(fams, exts, fmts, modes) ==
  [families |-> fams, extensions |-> exts, formats |-> fmts, present_modes |-> modes]

\* ----------------------------------------------------------- Option<u32>
None == <<>>

Some(x) == <<x>>

is_some(o) == o # None

unwrap(o) == o[1]

\* QueueFamilyIndices::is_complete
is_complete(qf) == is_some(qf.graphics_family) /\ is_some(qf.present_family)

\* The for loop of find_queue_families without its break, so that every
\* family is scanned: the faulty variant the check of C29 is tried against.
RECURSIVE find_queue_families_loop_no_break(_, _, _)
find_queue_families_loop_no_break(fams, idx, qf) ==
  IF idx >= Len(fams) THEN qf
  ELSE LET f  == fams[idx + 1]
           q1 == IF f.present THEN [qf EXCEPT !.present_family = Some(idx)] ELSE qf
           q2 == IF f.graphics THEN [q1 EXCEPT !.graphics_family = Some(idx)] ELSE q1
       IN  find_queue_families_loop_no_break(fams, idx + 1, q2)

\* The for loop of find_queue_families from family index idx (0-based) on:
\* each family overwrites the index of the roles it can play, and the scan
\* stops at the first index at which both roles have an index.
RECURSIVE find_queue_families_loop(_, _, _)
find_queue_families_loop(fams, idx, qf) ==
  IF idx >= Len(fams) THEN qf
  ELSE LET f  == fams[idx + 1]
           q1 == IF f.present THEN [qf EXCEPT !.present_family = Some(idx)] ELSE qf
           q2 == IF f.graphics THEN [q1 EXCEPT !.graphics_family = Some(idx)] ELSE q1
       IN  IF is_complete(q2) THEN q2 ELSE find_queue_families_loop(fams, idx + 1, q2)

\* VulkanApp::find_queue_families(dev)
find_queue_families(dev) ==
  find_queue_families_loop(dev.families, 0,
                           [graphics_family |-> None, present_family |-> None])

\* How many families the for loop of find_queue_families scans from family
\* index idx on, which is how often it calls
\* vkGetPhysicalDeviceSurfaceSupportKHR.
RECURSIVE find_queue_families_scanned(_, _, _)
find_queue_families_scanned(fams, idx, qf) ==
  IF idx >= Len(fams) THEN 0
  ELSE LET f  == fams[idx + 1]
           q1 == IF f.present THEN [qf EXCEPT !.present_family = Some(idx)] ELSE qf
           q2 == IF f.graphics THEN [q1 EXCEPT !.graphics_family = Some(idx)] ELSE q1
       IN  IF is_complete(q2) THEN 1 ELSE 1 + find_queue_families_scanned(fams, idx + 1, q2)

\* VulkanApp::check_device_extensions_support(dev): every required name is
\* removed from the set by some enumerated extension.
check_device_extensions_support(dev) ==
  Range(DEVICE_EXTENSIONS) \ Range(dev.extensions) = {}

\* VulkanApp::is_device_suitable(dev): "Err", "Ok(true)" or "Ok(false)".
is_device_suitable(a, dev) ==
  LET extensions_supported == check_device_extensions_support(dev)
      swap_chain_adequate  == /\ extensions_supported
                              /\ dev.formats # <<>>
                              /\ dev.present_modes # <<>>
  IN  IF extensions_supported /\ a.surface = NULL THEN "Err"
      ELSE IF /\ is_complete(find_queue_families(dev))
              /\ extensions_supported
              /\ swap_chain_adequate
        THEN "Ok(true)"
        ELSE "Ok(false)"

\* The loop of pick_physical_device without its break, so that a later
\* suitable device replaces an earlier one: the faulty variant the check of C6
\* is tried against.
RECURSIVE pick_loop_no_break(_, _, _, _)
pick_loop_no_break(a, devs, i, seen) ==
  IF i > Len(devs) THEN [res |-> "Ok", physical_device |-> a.physical_device, examined |-> seen]
  ELSE LET s == is_device_suitable(a, devs[i])
       IN  IF s = "Err"
             THEN [res |-> "Err", physical_device |-> a.physical_device,
                   examined |-> Append(seen, i)]
           ELSE IF s = "Ok(true)"
             THEN pick_loop_no_break([a EXCEPT !.physical_device = i], devs, i + 1,
                                     Append(seen, i))
           ELSE pick_loop_no_break(a, devs, i + 1, Append(seen, i))

\* The for loop of pick_physical_device from device i (1-based) on; the handle
\* of a device is its position in the enumeration.
RECURSIVE pick_loop(_, _, _, _)
pick_loop(a, devs, i, seen) ==
  IF i > Len(devs) THEN [res |-> "Ok", physical_device |-> a.physical_device, examined |-> seen]
  ELSE LET s == is_device_suitable(a, devs[i])
       IN  IF s = "Err"
             THEN [res |-> "Err", physical_device |-> a.physical_device,
                   examined |-> Append(seen, i)]
           ELSE IF s = "Ok(true)"
             THEN [res |-> "Ok", physical_device |-> i, examined |-> Append(seen, i)]
           ELSE pick_loop(a, devs, i + 1, Append(seen, i))

\* check_validation_layer_support comparing each requested name with the
\* first enumerated layer only: the faulty variant the check of C13 is tried
\* against.
check_validation_layer_support_first ==
  \A i \in 1..Len(VALIDATION_LAYERS) :
     Len(layers) > 0 /\ layers[1] = VALIDATION_LAYERS[i]

\* check_validation_layer_support(): every requested layer is enumerated.
check_validation_layer_support ==
  \A i \in 1..Len(VALIDATION_LAYERS) :
     \E j \in 1..Len(layers) : layers[j] = VALIDATION_LAYERS[i]

\* The scan of choose_swap_surface_format comparing the format only, not the
\* colour space: the faulty variant the check of C8 is tried against.
RECURSIVE format_scan_format_only(_, _)
format_scan_format_only(fmts, idx) ==
  IF idx >= Len(fmts) THEN Some(0)
  ELSE IF fmts[idx + 1].format = B8G8R8A8_SRGB THEN Some(idx)
  ELSE format_scan_format_only(fmts, idx + 1)

\* VulkanApp::choose_swap_surface_format: None, or Some(0-based index).
RECURSIVE format_scan(_, _)
format_scan(fmts, idx) ==
  IF idx >= Len(fmts) THEN Some(0)
  ELSE IF fmts[idx + 1].format = B8G8R8A8_SRGB /\ fmts[idx + 1].colorSpace = SRGB_NONLINEAR
    THEN Some(idx)
  ELSE format_scan(fmts, idx + 1)

choose_swap_surface_format(available_formats) ==
  IF available_formats = <<>> THEN None ELSE format_scan(available_formats, 0)

\* choose_swap_present_mode with the scan for MAILBOX that the code has
\* commented out: the variant the check of C9 is tried against.
choose_swap_present_mode_mailbox(available_present_modes) ==
  IF MAILBOX \in Range(available_present_modes) THEN MAILBOX ELSE FIFO

\* VulkanApp::choose_swap_present_mode: the list is not looked at.
choose_swap_present_mode(available_present_modes) == FIFO

\* A clamp that forgets the lower bound: the faulty variant the check of C30
\* is tried against.
clamp_upper_only(x, lo, hi) == IF x > hi THEN hi ELSE x

\* u32::clamp(min, max); Rust panics when min > max.
clamp(x, lo, hi) == IF x < lo THEN lo ELSE IF x > hi THEN hi ELSE x

\* VulkanApp::choose_swap_extent, size being what glfwGetFramebufferSize gives.
choose_swap_extent(capabilities, size) ==
  IF capabilities.currentExtent[1] # U32_MAX THEN capabilities.currentExtent
  ELSE <<clamp(size[1], capabilities.minImageExtent[1], capabilities.maxImageExtent[1]),
         clamp(size[2], capabilities.minImageExtent[2], capabilities.maxImageExtent[2])>>

\* The image count capped by maxImageCount even when that is 0, which means
\* no limit: the faulty variant the check of C31 is tried against.
image_count_for_zero_limit(capabilities) ==
  IF capabilities.minImageCount + 1 > capabilities.maxImageCount
    THEN capabilities.maxImageCount
    ELSE capabilities.minImageCount + 1

\* The image count create_swap_chain asks for.
image_count_for(capabilities) ==
  IF capabilities.maxImageCount > 0
     /\ capabilities.minImageCount + 1 > capabilities.maxImageCount
    THEN capabilities.maxImageCount
    ELSE capabilities.minImageCount + 1

\* ------------------------------------------------------ the Vertex record
F32 == 4                        \* size and alignment of f32

\* Vertex::pos_offset()
pos_offset == 0

\* The smallest multiple of alignment a that is not below x.
align_up(x, a) == ((x + a - 1) \div a) * a

Max(a, b) == IF a > b THEN a ELSE b

\* size_of of a #[repr(C)] record of two fields: each field at the next
\* multiple of its alignment, the size a multiple of the larger alignment.
size_of_record(size1, align1, size2, align2) ==
  align_up(align_up(size1, align2) + size2, Max(align1, align2))

\* The layout of Vertex { pos: [f32; 2], color: [f32; 3] }: the size and
\* alignment of pos and the scalar of color (an array is as aligned as its
\* scalar, and three scalars long).
VertexTypes == [pos_size |-> 2 * F32, pos_align |-> F32, scalar |-> F32]

color_size(t) == 3 * t.scalar

size_of_Vertex(t) == size_of_record(t.pos_size, t.pos_align, color_size(t), t.scalar)

\* ------------------------------------------------- the functions of VulkanApp
\* Each function is an operator from the VulkanApp it runs on and the
\* platform's answers to its outcome: the result ("Ok", "Err", "Panic" for a
\* panic inside it, "Crash" for a killed process), the VulkanApp it leaves,
\* the objects it created and the destroy calls it made, in order, the API
\* calls whose failure code it received, and its message.
Out(res, a, cr, ds, fl, msg) ==
  [res |-> res, app |-> a, created |-> cr, destroyed |-> ds, failed |-> fl, msg |-> msg]

Ok(a, cr) == Out("Ok", a, cr, <<>>, "none", "none")

\* n copies of x
Rep(n, x) == [i \in 1..n |-> x]

\* Vec::resize(n, fill)
Resize(v, n, fill) == [i \in 1..n |-> IF i <= Len(v) THEN v[i] ELSE fill]

\* VulkanApp::init_glfw; f is the call that fails, "none" when none does.
\* glfwInit's result is not looked at; without a window the function panics.
init_glfw_fn(a, f) ==
  IF f = "none" THEN Ok([a EXCEPT !.window = HANDLE], <<"window">>)
  ELSE Out("Panic", a, <<>>, <<>>, f, "ERROR: Failed to create glfw window!")

\* The VkInstanceCreateInfo with the validation layers named in every build:
\* the faulty variant the check of C12 is tried against.
instance_create_info_layers(enabled) ==
  [enabledLayerNames |-> VALIDATION_LAYERS,
   enabledExtensionNames |->
     IF enabled THEN GLFW_EXTENSIONS \o <<DEBUG_UTILS_EXTENSION>> ELSE GLFW_EXTENSIONS,
   pNext |-> IF enabled THEN "debug_messenger_create_info" ELSE "null"]

\* The VkInstanceCreateInfo create_instance fills in.
instance_create_info(enabled) ==
  [enabledLayerNames |-> IF enabled THEN VALIDATION_LAYERS ELSE <<>>,
   enabledExtensionNames |->
     IF enabled THEN GLFW_EXTENSIONS \o <<DEBUG_UTILS_EXTENSION>> ELSE GLFW_EXTENSIONS,
   pNext |-> IF enabled THEN "debug_messenger_create_info" ELSE "null"]

\* VulkanApp::create_instance; the outcome also carries the create info of
\* the instance that was created.
create_instance_fn(a, enabled, r) ==
  IF r # VK_SUCCESS
    THEN [info |-> <<>>] @@
         Out("Err", a, <<>>, <<>>, "vkCreateInstance", "Failed to create Vulkan instance")
    ELSE [info |-> <<instance_create_info(enabled)>>] @@
         Ok([a EXCEPT !.vk_instance = HANDLE], <<"instance">>)

\* VulkanApp::setup_debug_messenger; r is what create_debug_utils_messenger_ext
\* returns (VK_ERROR also when the function pointer cannot be loaded).
setup_debug_messenger_fn(a, enabled, r) ==
  IF ~enabled THEN Ok(a, <<>>)
  ELSE IF a.vk_instance = NULL
    THEN Out("Err", a, <<>>, <<>>, "none",
             "Cannot set up debug messenger if vk_instance is not initialized!")
  ELSE IF r # VK_SUCCESS
    THEN Out("Err", a, <<>>, <<>>, "vkCreateDebugUtilsMessengerEXT",
             "Failed to set up debug messenger!")
  ELSE Ok([a EXCEPT !.debug_messenger = HANDLE], <<"debug_messenger">>)

\* VulkanApp::create_surface
create_surface_fn(a, r) ==
  IF r # VK_SUCCESS
    THEN Out("Err", a, <<>>, <<>>, "glfwCreateWindowSurface",
             "Failed to create window surface!")
    ELSE Ok([a EXCEPT !.surface = HANDLE], <<"surface">>)

\* VulkanApp::pick_physical_device; the outcome also carries the devices examined.
pick_physical_device_fn(a, devs) ==
  IF Len(devs) = 0
    THEN [examined |-> <<>>] @@
         Out("Err", a, <<>>, <<>>, "none", "Failed to find GPUs with Vulkan support!")
  ELSE LET p  == pick_loop(a, devs, 1, <<>>)
           a2 == [a EXCEPT !.physical_device = p.physical_device]
       IN  [examined |-> p.examined] @@
           (IF p.res = "Err"
              THEN Out("Err", a2, <<>>, <<>>, "none",
                       "surface must be initialized before calling query_swap_chain_support!")
            ELSE IF a2.physical_device = NULL
              THEN Out("Err", a2, <<>>, <<>>, "none", "Failed to find a suitable GPU!")
            ELSE Ok(a2, <<>>))

\* The queue families of the device the VulkanApp has picked.
my_queue_families(a, devs) == find_queue_families(devs[a.physical_device])

\* create_logical_device asking for a queue of the graphics family only: the
\* faulty variant the check of C28 is tried against.
unique_queue_families_graphics_only(indices) ==
  {unwrap(indices.graphics_family)}

\* The VkDeviceQueueCreateInfo list of create_logical_device: one entry per
\* distinct family index.
unique_queue_families(indices) ==
  {unwrap(indices.graphics_family), unwrap(indices.present_family)}

\* The VkDeviceCreateInfo create_logical_device fills in.
device_create_info(enabled, indices) ==
  [queueFamilies |-> unique_queue_families(indices),
   enabledExtensionNames |-> DEVICE_EXTENSIONS,
   enabledLayerNames |-> IF enabled THEN VALIDATION_LAYERS ELSE <<>>]

\* VulkanApp::create_logical_device; the outcome also carries the create info
\* of the device that was created.
create_logical_device_fn(a, devs, enabled, r) ==
  IF a.physical_device = NULL
    THEN [info |-> <<>>] @@
         Out("Err", a, <<>>, <<>>, "none",
             "physical_device must be set before calling create_logical_device!")
  ELSE LET indices == my_queue_families(a, devs)
       IN  IF ~is_complete(indices)
             THEN [info |-> <<>>] @@
                  Out("Panic", a, <<>>, <<>>, "none", "called Option::unwrap() on a None value")
           ELSE IF r # VK_SUCCESS
             THEN [info |-> <<>>] @@
                  Out("Err", a, <<>>, <<>>, "vkCreateDevice",
                      "Failed to create logical device!")
           ELSE [info |-> <<device_create_info(enabled, indices)>>] @@
                Ok([a EXCEPT !.device = HANDLE, !.graphics_queue = HANDLE,
                             !.present_queue = HANDLE], <<"device">>)

\* What create_swap_chain has computed when nothing was computed yet.
NoSwapChain ==
  [surface_format_idx |-> None, present_mode |-> "none", extent |-> <<0, 0>>,
   formats |-> <<>>, present_modes |-> <<>>, create_info |-> <<>>]

\* A handle whose object has been destroyed: what a handle of an image of an
\* earlier swap chain is once that swap chain is gone.
STALE == 2

\* The entries a Vec of image handles keeps from an earlier swap chain.
stale(v) == [i \in 1..Len(v) |-> IF v[i] = NULL THEN NULL ELSE STALE]

\* VulkanApp::create_swap_chain; dev is what the queries say about the picked
\* device now, capabilities those of the surface, size the framebuffer size, r the
\* result of vkCreateSwapchainKHR, n the number of images the swap chain
\* then reports and filled whether the second vkGetSwapchainImagesKHR, whose
\* result is not looked at, wrote the handles into the Vec that was resized
\* with null entries; the Vec is not cleared first, so unwritten entries below
\* its old length keep the handles of the images of the swap chain before
\* this one.  The outcome also carries the locals and the create info.
create_swap_chain_fn(a, dev, capabilities, size, r, n, filled) ==
  LET surface_format_idx == choose_swap_surface_format(dev.formats)
      present_mode == choose_swap_present_mode(dev.present_modes)
      extent       == choose_swap_extent(capabilities, size)
      indices      == find_queue_families(dev)
      locals       == [surface_format_idx |-> surface_format_idx,
                       present_mode |-> present_mode, extent |-> extent,
                       formats |-> dev.formats, present_modes |-> dev.present_modes,
                       create_info |-> <<>>]
  IN
  IF a.surface = NULL
    THEN [sc |-> NoSwapChain] @@
         Out("Err", a, <<>>, <<>>, "none",
             "surface must be initialized before calling query_swap_chain_support!")
  ELSE IF surface_format_idx = None
    THEN [sc |-> locals] @@ Out("Panic", a, <<>>, <<>>, "none", "surface format must exist")
  ELSE IF ~is_complete(indices)
    THEN [sc |-> locals] @@
         Out("Panic", a, <<>>, <<>>, "none", "called Option::unwrap() on a None value")
  ELSE
    LET fmt  == dev.formats[unwrap(surface_format_idx) + 1]
        info == [minImageCount |-> image_count_for(capabilities),
                 imageFormat |-> fmt.format,
                 imageColorSpace |-> fmt.colorSpace,
                 imageExtent |-> extent,
                 imageSharingMode |->
                   IF indices.graphics_family # indices.present_family
                     THEN "VK_SHARING_MODE_CONCURRENT" ELSE "VK_SHARING_MODE_EXCLUSIVE",
                 queueFamilyIndices |->
                   IF indices.graphics_family # indices.present_family
                     THEN <<unwrap(indices.graphics_family), unwrap(indices.present_family)>>
                     ELSE <<>>,
                 presentMode |-> present_mode]
        done == [locals EXCEPT !.create_info = <<info>>]
    IN  IF r # VK_SUCCESS
          THEN [sc |-> done] @@
               Out("Err", a, <<>>, <<>>, "vkCreateSwapchainKHR", "Failed to create swap chain!")
          ELSE [sc |-> done] @@
               Ok([a EXCEPT !.swap_chain = HANDLE,
                            !.swap_chain_images =
                              IF filled THEN Rep(n, HANDLE)
                              ELSE Resize(stale(a.swap_chain_images), n, NULL),
                            !.swap_chain_image_format = fmt.format,
                            !.swap_chain_extent = extent],
                  <<"swap_chain">>)

\* VulkanApp::create_image_views; the first k calls of vkCreateImageView
\* succeed, and the next one, if there is one, fails.
create_image_views_fn(a, k) ==
  LET n     == Len(a.swap_chain_images)
      views == Resize(a.swap_chain_image_views, n, NULL)
      a2    == [a EXCEPT !.swap_chain_image_views =
                           [i \in 1..n |-> IF i <= k THEN HANDLE ELSE views[i]]]
  IN  IF k < n
        THEN Out("Err", a2, Rep(k, "image_view"), <<>>, "vkCreateImageView",
                 "Failed to create image view!")
        ELSE Ok(a2, Rep(n, "image_view"))

\* create_render_pass with the result of vkCreateRenderPass not looked at: the
\* faulty variant the check of C4 is tried against.
create_render_pass_unchecked(a, r) ==
  Out("Ok", [a EXCEPT !.render_pass = IF r = VK_SUCCESS THEN HANDLE ELSE NULL],
      IF r = VK_SUCCESS THEN <<"render_pass">> ELSE <<>>, <<>>,
      IF r = VK_SUCCESS THEN "none" ELSE "vkCreateRenderPass", "none")

\* VulkanApp::create_render_pass
create_render_pass_fn(a, r) ==
  IF r # VK_SUCCESS
    THEN Out("Err", a, <<>>, <<>>, "vkCreateRenderPass", "Failed to create render pass!")
    ELSE Ok([a EXCEPT !.render_pass = HANDLE], <<"render_pass">>)

\* VulkanApp::create_graphics_pipeline; f is the call that fails, "none" when
\* none does.  The two ShaderModuleWrapper locals are dropped on every return,
\* the fragment module first.
create_graphics_pipeline_fn(a, f) ==
  LET sm == <<"shader_module", HANDLE>> IN
  CASE f = "vertex shader" ->
         Out("Err", a, <<>>, <<>>, "vkCreateShaderModule",
             "Failed to create vertex shader module!")
    [] f = "fragment shader" ->
         Out("Err", a, <<"shader_module">>, <<sm>>, "vkCreateShaderModule",
             "Failed to create fragment shader module!")
    [] f = "vkCreatePipelineLayout" ->
         Out("Err", a, <<"shader_module", "shader_module">>, <<sm, sm>>, f,
             "Failed to create pipeline layout!")
    [] f = "vkCreateGraphicsPipelines" ->
         Out("Err", [a EXCEPT !.pipeline_layout = HANDLE],
             <<"shader_module", "shader_module", "pipeline_layout">>, <<sm, sm>>, f,
             "Failed to create a graphics pipeline!")
    [] OTHER ->
         Out("Ok", [a EXCEPT !.pipeline_layout = HANDLE, !.graphics_pipeline = HANDLE],
             <<"shader_module", "shader_module", "pipeline_layout", "graphics_pipeline">>,
             <<sm, sm>>, "none", "none")

PipelineFailures ==
  {"none", "vertex shader", "fragment shader", "vkCreatePipelineLayout",
   "vkCreateGraphicsPipelines"}

\* VulkanApp::create_framebuffers; k as in create_image_views.
create_framebuffers_fn(a, k) ==
  LET n   == Len(a.swap_chain_image_views)
      fbs == Resize(a.swap_chain_framebuffers, n, NULL)
      a2  == [a EXCEPT !.swap_chain_framebuffers =
                         [i \in 1..n |-> IF i <= k THEN HANDLE ELSE fbs[i]]]
  IN  IF k < n
        THEN Out("Err", a2, Rep(k, "framebuffer"), <<>>, "vkCreateFramebuffer",
                 "Failed to create framebuffer!")
        ELSE Ok(a2, Rep(n, "framebuffer"))

\* VulkanApp::create_command_pool
create_command_pool_fn(a, devs, r) ==
  IF ~is_some(my_queue_families(a, devs).graphics_family)
    THEN Out("Panic", a, <<>>, <<>>, "none", "indices should have graphics family idx")
  ELSE IF r # VK_SUCCESS
    THEN Out("Err", a, <<>>, <<>>, "vkCreateCommandPool", "Failed to create command pool!")
  ELSE Ok([a EXCEPT !.command_pool = HANDLE], <<"command_pool">>)

\* The vertex buffer before create_vertex_buffer has made it.
NoBuffer == [size |-> 0, bound |-> FALSE, memory |-> <<>>]

\* The driver before any call: no fence, nothing submitted, nothing created.
NoGpu ==
  [fence |-> "none", pending |-> 0, submitted |-> 0,
   instance_info |-> <<>>, device_info |-> <<>>, vertex_buffer |-> NoBuffer]

\* VulkanApp::create_buffer and VulkanApp::create_vertex_buffer around it; f is
\* the call that fails.  The results of vkBindBufferMemory and vkMapMemory are
\* not looked at.  After a failed vkMapMemory the VERTICES are written through
\* a pointer that was never set: the write is undefined, and ub says whether
\* the process survives it.
\* The outcome also carries the vertex buffer as the driver has it: its size
\* in bytes, whether memory is bound to it, and what was written to the memory.
create_vertex_buffer_fn(a, f, ub) ==
  LET buffer_size == size_of_Vertex(VertexTypes) * Len(VERTICES) IN
  CASE f = "vkCreateBuffer" ->
         [vertex_buffer |-> NoBuffer] @@
         Out("Err", a, <<>>, <<>>, f, "Failed to create buffer!")
    [] f = "find_memory_type" ->
         [vertex_buffer |-> NoBuffer] @@
         Out("Err", a, <<"buffer">>, <<>>, "none", "Failed to find suitable memory type!")
    [] f = "vkAllocateMemory" ->
         [vertex_buffer |-> NoBuffer] @@
         Out("Err", a, <<"buffer">>, <<>>, f, "Failed to allocate buffer memory")
    [] OTHER ->
         LET a2 == [a EXCEPT !.vertex_buffer = HANDLE, !.vertex_buffer_memory = HANDLE]
             fl == f
             vb == [size |-> buffer_size, bound |-> f # "vkBindBufferMemory",
                    memory |-> IF f = "vkMapMemory" THEN <<>> ELSE VERTICES]
         IN  [vertex_buffer |-> vb] @@
             (IF f = "vkMapMemory" /\ ub = "crash"
                THEN Out("Crash", a2, <<"buffer", "buffer_memory">>, <<>>, fl,
                         "write through an unmapped pointer")
                ELSE Out("Ok", a2, <<"buffer", "buffer_memory">>, <<>>, fl, "none"))

VertexBufferFailures ==
  {"none", "vkCreateBuffer", "find_memory_type", "vkAllocateMemory",
   "vkBindBufferMemory", "vkMapMemory"}

\* VulkanApp::create_command_buffer
create_command_buffer_fn(a, r) ==
  IF r # VK_SUCCESS
    THEN Out("Err", a, <<>>, <<>>, "vkAllocateCommandBuffers",
             "Failed to allocate command buffers!")
    ELSE Ok([a EXCEPT !.command_buffer = HANDLE], <<"command_buffer">>)

\* VulkanApp::create_sync_objects; the three create calls are joined by ||, so
\* the first failure skips the calls after it.
create_sync_objects_fn(a, f) ==
  LET msg == "Failed to create semaphores/fence!" IN
  CASE f = "image_available_semaphore" ->
         Out("Err", a, <<>>, <<>>, "vkCreateSemaphore", msg)
    [] f = "render_finished_semaphore" ->
         Out("Err", [a EXCEPT !.image_available_semaphore = HANDLE],
             <<"image_available_semaphore">>, <<>>, "vkCreateSemaphore", msg)
    [] f = "in_flight_fence" ->
         Out("Err", [a EXCEPT !.image_available_semaphore = HANDLE,
                              !.render_finished_semaphore = HANDLE],
             <<"image_available_semaphore", "render_finished_semaphore">>, <<>>,
             "vkCreateFence", msg)
    [] OTHER ->
         Ok([a EXCEPT !.image_available_semaphore = HANDLE,
                      !.render_finished_semaphore = HANDLE,
                      !.in_flight_fence = HANDLE],
            <<"image_available_semaphore", "render_finished_semaphore", "in_flight_fence">>)

SyncFailures ==
  {"none", "image_available_semaphore", "render_finished_semaphore", "in_flight_fence"}

\* cleanup_swap_chain destroying the swap chain before the framebuffers and
\* image views made for it: the faulty variant the check of C22 is tried
\* against.
cleanup_swap_chain_chain_first(a) ==
  Out("Ok",
      [a EXCEPT !.swap_chain_framebuffers = <<>>, !.swap_chain_image_views = <<>>,
                !.swap_chain = NULL],
      <<>>,
      (IF a.swap_chain # NULL THEN <<<<"swap_chain", a.swap_chain>>>> ELSE <<>>)
        \o [i \in 1..Len(a.swap_chain_framebuffers) |-> <<"framebuffer", a.swap_chain_framebuffers[i]>>]
        \o [i \in 1..Len(a.swap_chain_image_views) |-> <<"image_view", a.swap_chain_image_views[i]>>],
      "none", "none")

\* VulkanApp::cleanup_swap_chain: every entry of the two Vecs is passed to its
\* destroy call, the swap chain only when it is not null.
cleanup_swap_chain_fn(a) ==
  Out("Ok",
      [a EXCEPT !.swap_chain_framebuffers = <<>>, !.swap_chain_image_views = <<>>,
                !.swap_chain = NULL],
      <<>>,
      [i \in 1..Len(a.swap_chain_framebuffers) |-> <<"framebuffer", a.swap_chain_framebuffers[i]>>]
        \o [i \in 1..Len(a.swap_chain_image_views) |-> <<"image_view", a.swap_chain_image_views[i]>>]
        \o (IF a.swap_chain # NULL THEN <<<<"swap_chain", a.swap_chain>>>> ELSE <<>>),
      "none", "none")

\* A destroy call of drop made without the test for null: the faulty variant
\* the check of C25 is tried against.
destroy_always(kind, handle) == <<<<kind, handle>>>>

\* One guarded destroy call of drop: made only for a handle that is not null.
destroy_if(kind, handle) == IF handle # NULL THEN <<<<kind, handle>>>> ELSE <<>>

\* drop with the device destroyed before the objects made from it: the
\* faulty variant the check of C2 is tried against.
drop_calls_device_first(a, enabled, loaded) ==
     destroy_if("device", a.device)
  \o destroy_if("buffer", a.vertex_buffer)
  \o destroy_if("buffer_memory", a.vertex_buffer_memory)
  \o destroy_if("in_flight_fence", a.in_flight_fence)
  \o destroy_if("render_finished_semaphore", a.render_finished_semaphore)
  \o destroy_if("image_available_semaphore", a.image_available_semaphore)
  \o destroy_if("command_pool", a.command_pool)
  \o destroy_if("graphics_pipeline", a.graphics_pipeline)
  \o destroy_if("pipeline_layout", a.pipeline_layout)
  \o destroy_if("render_pass", a.render_pass)
  \o (IF enabled /\ loaded THEN destroy_if("debug_messenger", a.debug_messenger) ELSE <<>>)
  \o destroy_if("surface", a.surface)
  \o destroy_if("instance", a.vk_instance)
  \o destroy_if("window", a.window)

\* The destroy calls of drop after cleanup_swap_chain, in the order of the
\* code; loaded says whether vkDestroyDebugUtilsMessengerEXT could be loaded.
drop_calls(a, enabled, loaded) ==
     destroy_if("buffer", a.vertex_buffer)
  \o destroy_if("buffer_memory", a.vertex_buffer_memory)
  \o destroy_if("in_flight_fence", a.in_flight_fence)
  \o destroy_if("render_finished_semaphore", a.render_finished_semaphore)
  \o destroy_if("image_available_semaphore", a.image_available_semaphore)
  \o destroy_if("command_pool", a.command_pool)
  \o destroy_if("graphics_pipeline", a.graphics_pipeline)
  \o destroy_if("pipeline_layout", a.pipeline_layout)
  \o destroy_if("render_pass", a.render_pass)
  \o destroy_if("device", a.device)
  \o (IF enabled /\ loaded THEN destroy_if("debug_messenger", a.debug_messenger) ELSE <<>>)
  \o destroy_if("surface", a.surface)
  \o destroy_if("instance", a.vk_instance)
  \o destroy_if("window", a.window)

\* impl Drop for VulkanApp
drop_fn(a, enabled, loaded) ==
  LET c == cleanup_swap_chain_fn(a)
  IN  Out("Ok", c.app, <<>>, c.destroyed \o drop_calls(c.app, enabled, loaded), "none", "none")

\* ------------------------------------------------------------------- main
\* init_vulkan with the command buffer allocated before the vertex buffer is
\* created: the faulty variant the check of C1 is tried against.
init_vulkan_calls_swapped ==
  <<"create_instance", "setup_debug_messenger", "create_surface",
    "pick_physical_device", "create_logical_device", "create_swap_chain",
    "create_image_views", "create_render_pass", "create_graphics_pipeline",
    "create_framebuffers", "create_command_pool", "create_command_buffer",
    "create_vertex_buffer", "create_sync_objects">>

\* The calls of init_vulkan after the validation layer check, in order.
init_vulkan_calls ==
  <<"create_instance", "setup_debug_messenger", "create_surface",
    "pick_physical_device", "create_logical_device", "create_swap_chain",
    "create_image_views", "create_render_pass", "create_graphics_pipeline",
    "create_framebuffers", "create_command_pool", "create_vertex_buffer",
    "create_command_buffer", "create_sync_objects">>

\* main entering main_loop without create_sync_objects having run: the faulty
\* variant the check of C3 is tried against.
next_pc_early(stage) ==
  IF stage = "init_glfw" THEN "init_vulkan"
  ELSE LET i == CHOOSE j \in 1..Len(init_vulkan_calls) : init_vulkan_calls[j] = stage
       IN  IF i >= Len(init_vulkan_calls) - 1 THEN "main_loop" ELSE init_vulkan_calls[i + 1]

\* Where main is after the call `stage` has returned Ok: main runs init_glfw,
\* init_vulkan and main_loop, and each call of init_vulkan is unwrapped before
\* the next one is made.
next_pc(stage) ==
  IF stage = "init_glfw" THEN "init_vulkan"
  ELSE LET i == CHOOSE j \in 1..Len(init_vulkan_calls) : init_vulkan_calls[j] = stage
       IN  IF i = Len(init_vulkan_calls) THEN "main_loop" ELSE init_vulkan_calls[i + 1]

\* The effect of one call of init_glfw/init_vulkan with outcome out: an Err is
\* unwrapped into a panic, and a panic unwinds main, which drops the VulkanApp.
Apply(stage, out) ==
  /\ app' = out.app
  /\ created' = created \o out.created
  /\ destroyed' = destroyed \o out.destroyed
  /\ failed' = out.failed
  /\ stages' = Append(stages, <<stage, out.res>>)
  /\ pc' = CASE out.res = "Ok" -> next_pc(stage)
             [] out.res = "Crash" -> "crashed"
             [] OTHER -> "unwind"
  /\ err' = IF out.res = "Ok" THEN err ELSE out.msg

rest == <<env, fb_size, loc, frames, offs, frame>>

init_glfw ==
  /\ pc = "init_glfw"
  /\ \E f \in {"none", "glfwInit", "glfwCreateWindow"} : Apply("init_glfw", init_glfw_fn(app, f))
  /\ UNCHANGED <<rest, gpu, examined, queue_fam, sc>>

\* The head of init_vulkan: panic when the layers are asked for and missing.
init_vulkan ==
  /\ pc = "init_vulkan"
  /\ IF validation /\ ~check_validation_layer_support
       THEN pc' = "unwind" /\ err' = "Validation layers requested, but not available!"
       ELSE pc' = init_vulkan_calls[1] /\ err' = err
  /\ UNCHANGED <<app, rest, gpu, examined, queue_fam, sc, hist>>

create_instance ==
  /\ pc = "create_instance"
  /\ \E r \in CreateResults :
       LET out == create_instance_fn(app, validation, r)
       IN  /\ Apply("create_instance", out)
           /\ gpu' = [gpu EXCEPT !.instance_info = out.info]
  /\ UNCHANGED <<rest, examined, queue_fam, sc>>

setup_debug_messenger ==
  /\ pc = "setup_debug_messenger"
  /\ \E r \in CreateResults :
       Apply("setup_debug_messenger", setup_debug_messenger_fn(app, validation, r))
  /\ UNCHANGED <<rest, gpu, examined, queue_fam, sc>>

create_surface ==
  /\ pc = "create_surface"
  /\ \E r \in CreateResults : Apply("create_surface", create_surface_fn(app, r))
  /\ UNCHANGED <<rest, gpu, examined, queue_fam, sc>>

pick_physical_device ==
  /\ pc = "pick_physical_device"
  /\ LET out == pick_physical_device_fn(app, devices)
     IN  Apply("pick_physical_device", out) /\ examined' = out.examined
  /\ UNCHANGED <<rest, gpu, queue_fam, sc>>

create_logical_device ==
  /\ pc = "create_logical_device"
  /\ \E r \in CreateResults :
       LET out == create_logical_device_fn(app, devices, validation, r)
       IN  /\ Apply("create_logical_device", out)
           /\ gpu' = [gpu EXCEPT !.device_info = out.info]
  /\ queue_fam' = IF app.physical_device = NULL THEN queue_fam
                  ELSE my_queue_families(app, devices)
  /\ UNCHANGED <<rest, examined, sc>>

\* The numbers of images vkGetSwapchainImagesKHR can report for a swap chain
\* created with these capabilities: the number asked for, or one more where
\* the surface allows it.
ImageCounts(capabilities) ==
  {n \in {image_count_for(capabilities), image_count_for(capabilities) + 1} :
     capabilities.maxImageCount = 0 \/ n <= capabilities.maxImageCount}

\* What the queries of create_swap_chain say about the picked device.
picked_device == devices[app.physical_device]

create_swap_chain ==
  /\ pc = "create_swap_chain"
  /\ \E r \in CreateResults, n \in ImageCounts(caps), filled \in BOOLEAN :
       \* answers to calls that are not made are not enumerated
       /\ r # VK_SUCCESS => filled
       /\ LET out == create_swap_chain_fn(app, picked_device, caps, fb_size, r, n, filled)
          IN  Apply("create_swap_chain", out) /\ sc' = out.sc
  /\ UNCHANGED <<rest, gpu, examined, queue_fam>>

create_image_views ==
  /\ pc = "create_image_views"
  /\ \E k \in 0..Len(app.swap_chain_images) :
       Apply("create_image_views", create_image_views_fn(app, k))
  /\ UNCHANGED <<rest, gpu, examined, queue_fam, sc>>

create_render_pass ==
  /\ pc = "create_render_pass"
  /\ \E r \in CreateResults : Apply("create_render_pass", create_render_pass_fn(app, r))
  /\ UNCHANGED <<rest, gpu, examined, queue_fam, sc>>

create_graphics_pipeline ==
  /\ pc = "create_graphics_pipeline"
  /\ \E f \in PipelineFailures :
       Apply("create_graphics_pipeline", create_graphics_pipeline_fn(app, f))
  /\ UNCHANGED <<rest, gpu, examined, queue_fam, sc>>

create_framebuffers ==
  /\ pc = "create_framebuffers"
  /\ \E k \in 0..Len(app.swap_chain_image_views) :
       Apply("create_framebuffers", create_framebuffers_fn(app, k))
  /\ UNCHANGED <<rest, gpu, examined, queue_fam, sc>>

create_command_pool ==
  /\ pc = "create_command_pool"
  /\ \E r \in CreateResults :
       Apply("create_command_pool", create_command_pool_fn(app, devices, r))
  /\ UNCHANGED <<rest, gpu, examined, queue_fam, sc>>

create_vertex_buffer ==
  /\ pc = "create_vertex_buffer"
  /\ \E f \in VertexBufferFailures, ub \in {"survives", "crash"} :
       LET out == create_vertex_buffer_fn(app, f, ub)
       IN  /\ Apply("create_vertex_buffer", out)
           /\ gpu' = [gpu EXCEPT !.vertex_buffer = out.vertex_buffer]
  /\ UNCHANGED <<rest, examined, queue_fam, sc>>

create_command_buffer ==
  /\ pc = "create_command_buffer"
  /\ \E r \in CreateResults : Apply("create_command_buffer", create_command_buffer_fn(app, r))
  /\ UNCHANGED <<rest, gpu, examined, queue_fam, sc>>

\* A fence created without VK_FENCE_CREATE_SIGNALED_BIT: the faulty variant
\* the check of C15 is tried against.
new_fence_unsignaled == "unsignaled"

\* The state of a fence created with VK_FENCE_CREATE_SIGNALED_BIT.
new_fence == "signaled"

create_sync_objects ==
  /\ pc = "create_sync_objects"
  /\ \E f \in SyncFailures :
       LET out == create_sync_objects_fn(app, f)
       IN  /\ Apply("create_sync_objects", out)
           /\ gpu' = IF out.app.in_flight_fence # NULL
                       THEN [gpu EXCEPT !.fence = new_fence] ELSE gpu
  /\ UNCHANGED <<rest, examined, queue_fam, sc>>

\* ------------------------------------------------------------ render loop
\* Framebuffer sizes the window can take; <<0, 0>> is a minimized window.
Sizes == {<<0, 0>>, <<WINDOW_WIDTH, WINDOW_HEIGHT>>}

\* The window library handing out events: NoEvent for events without a
\* callback here, a size for a framebuffer resize, on which
\* framebuffer_resize_callback calls set_resize_flag.
NoEvent == <<>>

Events == {NoEvent} \cup Sizes

set_resize_flag(a) == [a EXCEPT !.framebuffer_resized = TRUE]

deliver(a, ev) == IF ev = NoEvent THEN a ELSE set_resize_flag(a)

resized_to(size, ev) == IF ev = NoEvent THEN size ELSE ev

\* vkDeviceWaitIdle returning at once, whatever is outstanding: the faulty
\* variant the check of C14 is tried against.
idle_at_once(g) == g

\* vkDeviceWaitIdle: returns when every submission has completed, which
\* signals the fence given to the submission.
idle(g) == IF g.pending > 0 THEN [g EXCEPT !.pending = 0, !.fence = "signaled"] ELSE g

\* draw_frame before it has done anything: the results of its acquire and
\* present calls, the image acquired, the commands recorded, whether the
\* command buffer was submitted, which call led to recreate_swap_chain, the
\* framebuffer size when recreate_swap_chain was entered, whether it has
\* called glfwWaitEvents, and what draw_frame returned.
NoFrame ==
  [acquire |-> "none", image_index |-> 0, commands |-> <<>>, submitted |-> FALSE,
   present |-> "none", recreate |-> "none", entry_size |-> <<0, 0>>, waited |-> FALSE,
   res |-> "none"]

\* The loop of main_loop: panic at entry without a window or an instance; at
\* the loop head leave when the window should close, wait for the device and
\* return from main; else go on to glfwPollEvents.
main_loop ==
  /\ pc = "main_loop"
  /\ \E close \in BOOLEAN :
       /\ ~close => frames < MaxFrames
       /\ IF app.window = NULL \/ app.vk_instance = NULL
            THEN /\ pc' = "unwind" /\ gpu' = gpu /\ frames' = frames
                 /\ err' = "ERROR: Cannot execute main loop if window or vk_instance is null!"
          ELSE IF close
            THEN pc' = "return" /\ gpu' = idle(gpu) /\ frames' = frames /\ err' = err
            ELSE pc' = "poll_events" /\ gpu' = gpu /\ frames' = frames + 1 /\ err' = err
  /\ frame' = NoFrame
  /\ UNCHANGED <<app, env, fb_size, loc, hist, sc, offs>>

poll_events ==
  /\ pc = "poll_events"
  /\ \E ev \in Events : app' = deliver(app, ev) /\ fb_size' = resized_to(fb_size, ev)
  /\ pc' = "draw_frame"
  /\ UNCHANGED <<env, gpu, loc, hist, err, frames, sc, offs, frame>>

\* The GPU finishing the oldest outstanding submission.
gpu_complete ==
  /\ gpu.pending > 0
  /\ gpu' = [gpu EXCEPT !.pending = @ - 1, !.fence = "signaled"]
  /\ UNCHANGED <<pc, app, env, fb_size, loc, hist, err, frames, sc, offs, frame>>

\* draw_frame up to the return of vkWaitForFences: the call returns when the
\* fence is signaled, or at once with a failure code, which is not looked at.
draw_frame_wait ==
  /\ pc = "draw_frame"
  /\ \E r \in CreateResults :
       /\ r = VK_SUCCESS => gpu.fence = "signaled"
       /\ failed' = IF r = VK_SUCCESS THEN "none" ELSE "vkWaitForFences"
  /\ pc' = "draw_frame_acquire"
  /\ UNCHANGED <<app, env, fb_size, gpu, loc, stages, created, destroyed, examined, queue_fam,
                 err, frames, sc, offs, frame>>

DrawFailures ==
  {"none", "vkResetFences", "vkResetCommandBuffer", "vkBeginCommandBuffer",
   "vkEndCommandBuffer", "vkQueueSubmit"}

\* A command put into the command buffer: the call and its arguments.
Cmd(op, args) == [op |-> op, args |-> args]

\* The commands VulkanApp::record_command_buffer records between
\* vkBeginCommandBuffer and vkEndCommandBuffer; a framebuffer is named by its
\* index in swap_chain_framebuffers, the extent by its width and height.
record_command_buffer(a, image_index) ==
  <<Cmd("vkCmdBeginRenderPass", <<image_index>> \o a.swap_chain_extent),
    Cmd("vkCmdBindPipeline", <<a.graphics_pipeline>>),
    Cmd("vkCmdBindVertexBuffers", <<0, 1, a.vertex_buffer, 0>>),
    Cmd("vkCmdSetViewport", a.swap_chain_extent),
    Cmd("vkCmdSetScissor", a.swap_chain_extent),
    Cmd("vkCmdDraw", <<Len(VERTICES), 1, 0, 0>>),
    Cmd("vkCmdEndRenderPass", <<>>)>>

\* draw_frame leaving framebuffer_resized as it is: the faulty variant the
\* check of C18 is tried against.
keep_resize_flag(a) == a

\* `self.framebuffer_resized = false` in draw_frame.
clear_resize_flag(a) == [a EXCEPT !.framebuffer_resized = FALSE]

\* The test on vkQueuePresentKHR without the resize flag: the faulty variant
\* the check of C17 is tried against.
present_recreates_by_result(result, resized) ==
  result = VK_OUT_OF_DATE \/ result = VK_SUBOPTIMAL

\* The test draw_frame makes on the result of vkQueuePresentKHR to decide on
\* recreate_swap_chain.
present_recreates(result, resized) ==
  result = VK_OUT_OF_DATE \/ result = VK_SUBOPTIMAL \/ resized

\* draw_frame from vkAcquireNextImageKHR on, up to its return or to its call
\* of recreate_swap_chain: ra and rp are the results of acquire and present,
\* image_index the image acquired, f the other call that fails.  The outcome
\* names where main is next and carries the driver state and what the call
\* has done.
draw_frame_fn(a, g, ra, image_index, f, rp) ==
  LET fr0  == [NoFrame EXCEPT !.acquire = ra]
      base == [pc |-> "main_loop", app |-> a, gpu |-> g, failed |-> "none", msg |-> "none",
               frame |-> [fr0 EXCEPT !.res = "Ok"]]
  IN
  IF ra = VK_OUT_OF_DATE
    THEN [base EXCEPT !.pc = "recreate_swap_chain",
                      !.frame = [fr0 EXCEPT !.recreate = "acquire"]]
  ELSE IF ra # VK_SUCCESS /\ ra # VK_SUBOPTIMAL
    THEN [base EXCEPT !.pc = "unwind", !.failed = "vkAcquireNextImageKHR",
                      !.msg = "Failed to acquire swap chain image!",
                      !.frame = [fr0 EXCEPT !.res = "Err"]]
  ELSE
    LET g1  == IF f = "vkResetFences" THEN g ELSE [g EXCEPT !.fence = "unsignaled"]
        fl  == f
        fr1 == [fr0 EXCEPT !.image_index = image_index]
        fr2 == [fr1 EXCEPT !.commands = record_command_buffer(a, image_index)]
    IN
    IF f = "vkBeginCommandBuffer"
      THEN [base EXCEPT !.pc = "unwind", !.gpu = g1, !.failed = fl,
                        !.msg = "Failed to begin recording command buffer!",
                        !.frame = [fr1 EXCEPT !.res = "Err"]]
    ELSE IF image_index >= Len(a.swap_chain_framebuffers)
      THEN [base EXCEPT !.pc = "unwind", !.gpu = g1, !.failed = fl,
                        !.msg = "index out of bounds",
                        !.frame = [fr1 EXCEPT !.res = "Panic"]]
    ELSE IF f = "vkEndCommandBuffer"
      THEN [base EXCEPT !.pc = "unwind", !.gpu = g1, !.failed = fl,
                        !.msg = "Failed to record command buffer!",
                        !.frame = [fr2 EXCEPT !.res = "Err"]]
    ELSE IF f = "vkQueueSubmit"
      THEN [base EXCEPT !.pc = "unwind", !.gpu = g1, !.failed = fl,
                        !.msg = "Failed to submit draw command buffer!",
                        !.frame = [fr2 EXCEPT !.res = "Err"]]
    ELSE
      LET g2  == [g1 EXCEPT !.pending = @ + 1, !.submitted = @ + 1]
          fp  == IF rp = VK_ERROR /\ ~a.framebuffer_resized THEN "vkQueuePresentKHR" ELSE fl
          fr3 == [fr2 EXCEPT !.submitted = TRUE, !.present = rp]
      IN  IF present_recreates(rp, a.framebuffer_resized)
            THEN [base EXCEPT !.pc = "recreate_swap_chain", !.gpu = g2, !.failed = fp,
                              !.app = clear_resize_flag(a),
                              !.frame = [fr3 EXCEPT !.recreate = "present"]]
          ELSE IF rp # VK_SUCCESS
            THEN [base EXCEPT !.pc = "unwind", !.gpu = g2, !.failed = fp,
                              !.msg = "Failed to present swap chain image!",
                              !.frame = [fr3 EXCEPT !.res = "Err"]]
          ELSE [base EXCEPT !.gpu = g2, !.failed = fp, !.frame = [fr3 EXCEPT !.res = "Ok"]]

draw_frame ==
  /\ pc = "draw_frame_acquire"
  /\ \E ra \in QueueResults, rp \in QueueResults, f \in DrawFailures,
        image_index \in 0..(Len(app.swap_chain_images) - 1) :
       \* answers to calls that are not made are not enumerated
       /\ ra \notin {VK_SUCCESS, VK_SUBOPTIMAL} => f = "none" /\ image_index = 0
       /\ (ra \notin {VK_SUCCESS, VK_SUBOPTIMAL}
            \/ f \in {"vkBeginCommandBuffer", "vkEndCommandBuffer", "vkQueueSubmit"})
          => rp = VK_SUCCESS
       /\ LET out == draw_frame_fn(app, gpu, ra, image_index, f, rp)
          IN  /\ pc' = out.pc
              /\ app' = out.app
              /\ gpu' = out.gpu
              /\ failed' = out.failed
              /\ err' = out.msg
              /\ loc' = IF out.pc = "recreate_swap_chain" THEN <<0, 0>> ELSE loc
              /\ frame' = IF out.pc = "recreate_swap_chain"
                            THEN [out.frame EXCEPT !.entry_size = fb_size] ELSE out.frame
  /\ UNCHANGED <<env, fb_size, stages, created, destroyed, examined, queue_fam, frames, sc, offs>>

\* One turn of the while loop of recreate_swap_chain, entered while the local
\* width or height is 0: read the framebuffer size, then glfwWaitEvents, which
\* returns after an event has been handled.  recreate_swap_chain reads nothing
\* of what draw_frame did before calling it: of the frame only the call that
\* led here and the size at entry are kept.
recreate_wait ==
  /\ pc = "recreate_swap_chain"
  /\ loc[1] = 0 \/ loc[2] = 0
  /\ loc' = fb_size
  /\ \E ev \in Events : app' = deliver(app, ev) /\ fb_size' = resized_to(fb_size, ev)
  /\ frame' = [NoFrame EXCEPT !.recreate = frame.recreate, !.entry_size = frame.entry_size,
                              !.waited = TRUE]
  /\ UNCHANGED <<pc, env, gpu, hist, err, frames, sc, offs>>

\* recreate_swap_chain after its loop: vkDeviceWaitIdle, cleanup_swap_chain,
\* then the three create functions, each ended by `?`.
recreate_swap_chain_fn(a, dev, capabilities, size, r, n, filled, k1, k2) ==
  LET c  == cleanup_swap_chain_fn(a)
      s  == create_swap_chain_fn(c.app, dev, capabilities, size, r, n, filled)
      v  == create_image_views_fn(s.app, k1)
      fb == create_framebuffers_fn(v.app, k2)
      join(x, y) == [y EXCEPT !.created = x.created \o @,
                              !.destroyed = x.destroyed \o @,
                              !.failed = IF @ = "none" THEN x.failed ELSE @]
      so == [res |-> s.res, app |-> s.app, created |-> s.created,
             destroyed |-> s.destroyed, failed |-> s.failed, msg |-> s.msg]
  IN  [sc |-> s.sc] @@
      (IF s.res # "Ok" THEN join(c, so)
       ELSE IF v.res # "Ok" THEN join(join(c, so), v)
       ELSE join(join(join(c, so), v), fb))

recreate_swap_chain ==
  /\ pc = "recreate_swap_chain"
  /\ loc[1] # 0 /\ loc[2] # 0
  /\ \E r \in CreateResults, n \in ImageCounts(caps), filled \in BOOLEAN :
     \E k1 \in 0..n, k2 \in 0..n :
       \* answers to calls that are not made are not enumerated
       /\ r # VK_SUCCESS => k1 = n /\ filled
       /\ k1 < n => k2 = n
       /\ LET out == recreate_swap_chain_fn(app, picked_device, caps, fb_size, r, n, filled, k1, k2)
          IN  /\ app' = out.app
              /\ created' = created \o out.created
              /\ destroyed' = destroyed \o out.destroyed
              /\ failed' = out.failed
              /\ sc' = out.sc
              /\ pc' = IF out.res = "Ok" THEN "main_loop" ELSE "unwind"
              /\ err' = out.msg
              /\ frame' = [frame EXCEPT !.res = out.res]
  /\ gpu' = idle(gpu)
  /\ loc' = <<0, 0>>
  /\ UNCHANGED <<env, fb_size, stages, examined, queue_fam, frames, offs>>

\* main returning or unwinding: the VulkanApp is dropped.
drop ==
  /\ pc \in {"return", "unwind"}
  /\ \E loaded \in BOOLEAN :
       LET out == drop_fn(app, validation, loaded)
       IN  app' = out.app /\ destroyed' = destroyed \o out.destroyed
  /\ pc' = "exit"
  /\ frame' = NoFrame
  /\ gpu' = IF app.vertex_buffer # NULL THEN [gpu EXCEPT !.vertex_buffer = NoBuffer] ELSE gpu
  /\ UNCHANGED <<env, fb_size, loc, stages, created, failed, examined, queue_fam, err,
                 frames, sc, offs>>

\* ------------------------------------------------- Vertex::color_offset
\* Vertex::color_offset() about to be evaluated for the types t.
ColorOffsetCall(t) == [types |-> t, offset |-> 0, pc |-> "call"]

\* let mut offset = size_of::<Vec2f>(); let alignment = align_of::<Vec3f>();
color_offset_enter ==
  /\ offs.pc = "call"
  /\ offs' = [offs EXCEPT !.offset = offs.types.pos_size, !.pc = "loop"]
  /\ UNCHANGED <<pc, app, env, fb_size, gpu, loc, hist, err, frames, sc, frame>>

\* The loop test of color_offset with the size of the colour field in place
\* of its alignment: the faulty variant the check of C10 is tried against.
color_offset_test_size(o) == o.offset % color_size(o.types) # 0

\* The test of the while loop of color_offset.
color_offset_test(o) == o.offset % o.types.scalar # 0

\* while offset % alignment != 0 { offset += 1; }
color_offset_step ==
  /\ offs.pc = "loop"
  /\ color_offset_test(offs)
  /\ offs' = [offs EXCEPT !.offset = @ + 1]
  /\ UNCHANGED <<pc, app, env, fb_size, gpu, loc, hist, err, frames, sc, frame>>

color_offset_return ==
  /\ offs.pc = "loop"
  /\ ~color_offset_test(offs)
  /\ offs' = [offs EXCEPT !.pc = "done"]
  /\ UNCHANGED <<pc, app, env, fb_size, gpu, loc, hist, err, frames, sc, frame>>

\* ------------------------------------------------------- the specifications
\* Device lists of the runs of the whole program.
Format1 == [format |-> B8G8R8A8_SRGB, colorSpace |-> SRGB_NONLINEAR]

GoodDevice ==
  Device(<<[graphics |-> TRUE, present |-> TRUE]>>, DEVICE_EXTENSIONS, <<Format1>>, <<FIFO>>)

SplitDevice ==
  Device(<<[graphics |-> TRUE, present |-> FALSE], [graphics |-> FALSE, present |-> TRUE]>>,
         DEVICE_EXTENSIONS, <<Format1>>, <<MAILBOX, FIFO>>)

BadDevice == Device(<<[graphics |-> TRUE, present |-> FALSE]>>, <<>>, <<>>, <<>>)

\* Surface capabilities of the runs of the whole program: an extent fixed by
\* the surface, or the sentinel that leaves the extent to the program.
FixedCaps ==
  [minImageCount |-> 2, maxImageCount |-> 2,
   currentExtent |-> <<WINDOW_WIDTH, WINDOW_HEIGHT>>,
   minImageExtent |-> <<1, 1>>, maxImageExtent |-> <<4096, 4096>>]

FreeCaps ==
  [minImageCount |-> 1, maxImageCount |-> 0,
   currentExtent |-> <<U32_MAX, U32_MAX>>,
   minImageExtent |-> <<1, 1>>, maxImageExtent |-> <<640, 480>>]

\* As FreeCaps, with at most two images.
LooseCaps == [FreeCaps EXCEPT !.maxImageCount = 2]

\* The platforms the whole program is run on: the build (with or without
\* validation), the layers and devices enumerated, the surface capabilities.
Platform(v, l, d, c) == [validation |-> v, layers |-> l, devices |-> d, caps |-> c]

Platforms ==
  {Platform(FALSE, <<>>, <<BadDevice, GoodDevice>>, FixedCaps),
   Platform(TRUE, VALIDATION_LAYERS, <<SplitDevice>>, LooseCaps),
   Platform(TRUE, <<>>, <<GoodDevice>>, FixedCaps),
   Platform(FALSE, VALIDATION_LAYERS, <<>>, FixedCaps),
   Platform(TRUE, VALIDATION_LAYERS, <<BadDevice>>, FreeCaps)}

\* What holds of main from its start until create_swap_chain is called,
\* while every call has succeeded: nothing drawn, destroyed or failed yet.
Still ==
  /\ loc = <<0, 0>>
  /\ frame = NoFrame
  /\ destroyed = <<>> /\ failed = "none"
  /\ err = "none"
  /\ frames = 0
  /\ sc = NoSwapChain

\* The same with the framebuffer of the size the window was created with.
Quiet == fb_size = <<WINDOW_WIDTH, WINDOW_HEIGHT>> /\ Still

\* main before its first call: VulkanApp::new() and nothing else.
Fresh ==
  /\ pc = "init_glfw"
  /\ app = NewApp
  /\ stages = <<>> /\ created = <<>>
  /\ examined = <<>>
  /\ queue_fam = [graphics_family |-> None, present_family |-> None]
  /\ gpu = NoGpu
  /\ Quiet

\* The program's own Vertex is the record color_offset is evaluated for.
Start == Fresh /\ offs = ColorOffsetCall(VertexTypes)

Init ==
  /\ Start
  /\ \E p \in Platforms :
       /\ validation = p.validation
       /\ layers = p.layers
       /\ devices = p.devices
       /\ caps = p.caps

Next ==
  \/ init_glfw \/ init_vulkan \/ create_instance \/ setup_debug_messenger
  \/ create_surface \/ pick_physical_device \/ create_logical_device
  \/ create_swap_chain \/ create_image_views \/ create_render_pass
  \/ create_graphics_pipeline \/ create_framebuffers \/ create_command_pool
  \/ create_vertex_buffer \/ create_command_buffer \/ create_sync_objects
  \/ main_loop \/ poll_events \/ draw_frame_wait \/ draw_frame \/ gpu_complete
  \/ recreate_wait \/ recreate_swap_chain \/ drop

Spec == Init /\ [][Next]_vars

\* The whole program on the first platform: a build without validation, the
\* second device suitable, the extent fixed by the surface.
InitLoop ==
  /\ Start
  /\ validation = FALSE /\ layers = <<>>
  /\ devices = <<BadDevice, GoodDevice>>
  /\ caps = FixedCaps

\* The device makes progress: it finishes what was submitted to it.
SpecLive == InitLoop /\ [][Next]_vars /\ WF_vars(gpu_complete)

\* recreate_swap_chain is past its loop: the state in which its step after
\* the loop, and no other step of main, is enabled.
recreate_ready == pc = "recreate_swap_chain" /\ loc[1] # 0 /\ loc[2] # 0

\* The render loop keeps running: a draw_frame that was entered goes on to
\* its return; vkWaitForFences, glfwWaitEvents and the calls of
\* recreate_swap_chain return.  The last conjunct is weak fairness of
\* recreate_swap_chain, written with the state predicate that says when the
\* action is enabled.
SpecLoop ==
  /\ InitLoop /\ [][Next]_vars
  /\ WF_vars(draw_frame_wait \/ draw_frame \/ recreate_wait)
  /\ []<>(~recreate_ready)

\* ---------------------------------------------- pick_physical_device alone
\* The devices pick_physical_device is tried on: without or with a present
\* family, without or with the required extension, without or with formats
\* and present modes.
PickDevices ==
  {Device(f, e, fm, pm) :
     f \in {<<[graphics |-> TRUE, present |-> FALSE]>>,
            <<[graphics |-> FALSE, present |-> TRUE], [graphics |-> TRUE, present |-> FALSE]>>,
            <<[graphics |-> TRUE, present |-> TRUE]>>},
     e \in {<<"VK_KHR_maintenance1">>, <<"VK_KHR_maintenance1">> \o DEVICE_EXTENSIONS},
     fm \in {<<>>, <<Format1>>},
     pm \in {<<>>, <<FIFO>>}}

\* main about to call pick_physical_device in a build without validation:
\* window, instance and surface exist.
BeforePick ==
  /\ pc = "pick_physical_device"
  /\ app = [NewApp EXCEPT !.window = HANDLE, !.vk_instance = HANDLE, !.surface = HANDLE]
  /\ stages = <<<<"init_glfw", "Ok">>, <<"create_instance", "Ok">>,
                <<"setup_debug_messenger", "Ok">>, <<"create_surface", "Ok">>>>
  /\ created = <<"window", "instance", "surface">>
  /\ examined = <<>>
  /\ queue_fam = [graphics_family |-> None, present_family |-> None]
  /\ validation = FALSE /\ layers = <<>>
  /\ gpu = [NoGpu EXCEPT !.instance_info = <<instance_create_info(FALSE)>>]
  /\ Quiet /\ offs = ColorOffsetCall(VertexTypes)

InitPick ==
  /\ BeforePick
  /\ devices \in SeqsUpTo(PickDevices, MaxDevices)
  /\ caps = FixedCaps

NextPick == pick_physical_device

SpecPick == InitPick /\ [][NextPick]_vars

\* ------------------------------------ find_queue_families on any device
\* main about to call pick_physical_device on a platform with one device,
\* whose queue families are any list; its extensions, formats and present
\* modes are acceptable.
InitScan ==
  /\ BeforePick
  /\ \E f \in SeqsUpTo(FamilyValues, MaxFamilies) :
       devices = <<Device(f, DEVICE_EXTENSIONS, <<Format1>>, <<FIFO>>)>>
  /\ caps = FixedCaps

NextScan == pick_physical_device \/ create_logical_device

SpecScan == InitScan /\ [][NextScan]_vars

\* ---------------------------------------------- find_queue_families alone
\* main about to call create_logical_device: the only device was picked.
BeforeDevice ==
  /\ pc = "create_logical_device"
  /\ app = [NewApp EXCEPT !.window = HANDLE, !.vk_instance = HANDLE, !.surface = HANDLE,
                          !.physical_device = 1]
  /\ stages = <<<<"init_glfw", "Ok">>, <<"create_instance", "Ok">>,
                <<"setup_debug_messenger", "Ok">>, <<"create_surface", "Ok">>,
                <<"pick_physical_device", "Ok">>>>
  /\ created = <<"window", "instance", "surface">>
  /\ examined = <<1>>
  /\ queue_fam = [graphics_family |-> None, present_family |-> None]
  /\ validation = FALSE /\ layers = <<>>
  /\ gpu = [NoGpu EXCEPT !.instance_info = <<instance_create_info(FALSE)>>]
  /\ Quiet /\ offs = ColorOffsetCall(VertexTypes)

\* The queue family lists of a device that was picked: some family has the
\* graphics bit and some family can present.
PickedFamilies ==
  {f \in SeqsUpTo(FamilyValues, MaxFamilies) :
     (\E i \in 1..Len(f) : f[i].graphics) /\ (\E j \in 1..Len(f) : f[j].present)}

InitFamilies ==
  /\ BeforeDevice
  /\ \E f \in PickedFamilies : devices = <<Device(f, DEVICE_EXTENSIONS, <<Format1>>, <<FIFO>>)>>
  /\ caps = FixedCaps

NextFamilies == create_logical_device

SpecFamilies == InitFamilies /\ [][NextFamilies]_vars

\* ------------------------------------------------- create_swap_chain alone
\* main about to call create_swap_chain, whatever the size of the framebuffer:
\* the only device was picked and the logical device made from its family 0.
AtSwapChain ==
  /\ pc = "create_swap_chain"
  /\ app = [NewApp EXCEPT !.window = HANDLE, !.vk_instance = HANDLE, !.surface = HANDLE,
                          !.physical_device = 1, !.device = HANDLE,
                          !.graphics_queue = HANDLE, !.present_queue = HANDLE]
  /\ stages = <<<<"init_glfw", "Ok">>, <<"create_instance", "Ok">>,
                <<"setup_debug_messenger", "Ok">>, <<"create_surface", "Ok">>,
                <<"pick_physical_device", "Ok">>, <<"create_logical_device", "Ok">>>>
  /\ created = <<"window", "instance", "surface", "device">>
  /\ examined = <<1>>
  /\ queue_fam = [graphics_family |-> Some(0), present_family |-> Some(0)]
  /\ validation = FALSE /\ layers = <<>>
  /\ gpu = [NoGpu EXCEPT !.instance_info = <<instance_create_info(FALSE)>>,
                         !.device_info = <<device_create_info(FALSE, queue_fam)>>]
  /\ Still /\ offs = ColorOffsetCall(VertexTypes)

\* The same with the framebuffer of the size the window was created with.
BeforeSwapChain == AtSwapChain /\ fb_size = <<WINDOW_WIDTH, WINDOW_HEIGHT>>

\* The lists the queries of create_swap_chain return are the inputs of
\* choose_swap_surface_format and choose_swap_present_mode: every list of
\* formats up to MaxFormats, the empty one included, and every list of
\* present modes from one entry up to MaxModes.
InitSwap ==
  /\ BeforeSwapChain
  /\ \E fm \in SeqsUpTo(FormatValues, MaxFormats),
        pm \in SeqsUpTo(ModeValues, MaxModes) \ {<<>>} :
       devices = <<Device(<<[graphics |-> TRUE, present |-> TRUE]>>, DEVICE_EXTENSIONS, fm, pm)>>
  /\ caps \in {FixedCaps, FreeCaps}

NextSwap == create_swap_chain

SpecSwap == InitSwap /\ [][NextSwap]_vars

\* ------------------------------------------------ choose_swap_extent alone
\* Surface capabilities as VkSurfaceCapabilitiesKHR gives them: in each
\* dimension a least extent of at least 1 and a largest one not below it, and
\* a current extent that is the sentinel or lies between the two.
ExtentCaps ==
  {c \in [minImageCount : {2}, maxImageCount : {2},
          currentExtent : {<<U32_MAX, U32_MAX>>} \cup ((1..MaxExtent) \X (1..MaxExtent)),
          minImageExtent : (1..MaxExtent) \X (1..MaxExtent),
          maxImageExtent : (1..MaxExtent) \X (1..MaxExtent)] :
     \A d \in 1..2 :
       /\ c.minImageExtent[d] <= c.maxImageExtent[d]
       /\ c.currentExtent[d] # U32_MAX =>
            /\ c.minImageExtent[d] <= c.currentExtent[d]
            /\ c.currentExtent[d] <= c.maxImageExtent[d]}

\* create_swap_chain called for any such surface, with a framebuffer of any
\* size from 0 to beyond the largest extent.
InitExtent ==
  /\ AtSwapChain
  /\ devices = <<GoodDevice>>
  /\ caps \in ExtentCaps
  /\ fb_size \in (0..(MaxExtent + 1)) \X (0..(MaxExtent + 1))

SpecExtent == InitExtent /\ [][create_swap_chain]_vars

\* ------------------------------------ the image count of create_swap_chain
\* Surface capabilities as VkSurfaceCapabilitiesKHR gives them: at least one
\* image, and a largest number of images that is 0, for no limit, or not
\* below the least; the extents are those of FixedCaps or of FreeCaps.
ImageCaps ==
  {c \in {[e EXCEPT !.minImageCount = lo, !.maxImageCount = hi] :
            e \in {FixedCaps, FreeCaps}, lo \in 1..MaxImages, hi \in 0..(MaxImages + 1)} :
     c.maxImageCount = 0 \/ c.maxImageCount >= c.minImageCount}

\* create_swap_chain called for any such surface.
InitImages ==
  /\ BeforeSwapChain
  /\ devices = <<GoodDevice>>
  /\ caps \in ImageCaps

SpecImages == InitImages /\ [][create_swap_chain]_vars

\* ------------------------------------- check_validation_layer_support alone
\* main about to call init_vulkan: the window exists.
BeforeInitVulkan ==
  /\ pc = "init_vulkan"
  /\ app = [NewApp EXCEPT !.window = HANDLE]
  /\ stages = <<<<"init_glfw", "Ok">>>>
  /\ created = <<"window">>
  /\ examined = <<>>
  /\ queue_fam = [graphics_family |-> None, present_family |-> None]
  /\ gpu = NoGpu
  /\ Quiet /\ offs = ColorOffsetCall(VertexTypes)

\* Layer names the platform can enumerate: the requested one, a longer and a
\* shorter name, and another layer.
LayerNames ==
  {"VK_LAYER_KHRONOS_validation", "VK_LAYER_KHRONOS_validation_extra", "VK_LAYER_KHRONOS",
   "VK_LAYER_LUNARG_api_dump"}

InitLayers ==
  /\ BeforeInitVulkan
  /\ validation \in BOOLEAN
  /\ layers \in SeqsUpTo(LayerNames, MaxLayers)
  /\ devices = <<GoodDevice>> /\ caps = FixedCaps

NextLayers == init_vulkan \/ create_instance

SpecLayers == InitLayers /\ [][NextLayers]_vars

\* ------------------------------------------------ Vertex::color_offset alone
\* The layouts color_offset is run on: a position field of any size up to
\* MaxSize that is a multiple of its alignment, and a colour field of three
\* scalars whose alignment is their size.
OffsetTypes ==
  {t \in [pos_size : 0..MaxSize, pos_align : {1, 2, 4, 8}, scalar : {1, 2, 4, 8, 16}] :
     t.pos_size % t.pos_align = 0}

InitOffsets ==
  /\ Fresh
  /\ validation = FALSE /\ layers = <<>> /\ devices = <<GoodDevice>> /\ caps = FixedCaps
  /\ \E t \in OffsetTypes : offs = ColorOffsetCall(t)

NextOffsets == color_offset_enter \/ color_offset_step \/ color_offset_return

\* The function runs to its return once called: nothing else can delay it.
SpecOffsets == InitOffsets /\ [][NextOffsets]_vars /\ WF_vars(NextOffsets)

\* ------------------------------------------------------------ the claims
\* Helpers of the claims' formulas.
IsPrefix(s, t) == Len(s) <= Len(t) /\ \A i \in 1..Len(s) : s[i] = t[i]

Where(s, x) == {i \in 1..Len(s) : s[i] = x}

Pos(s, x) == CHOOSE i \in 1..Len(s) : s[i] = x

StageNames == [i \in 1..Len(stages) |-> stages[i][1]]

\* The setup function that creates each kind of object.
StageOfKind ==
  [window |-> "init_glfw", instance |-> "create_instance",
   debug_messenger |-> "setup_debug_messenger", surface |-> "create_surface",
   device |-> "create_logical_device", swap_chain |-> "create_swap_chain",
   image_view |-> "create_image_views", render_pass |-> "create_render_pass",
   shader_module |-> "create_graphics_pipeline",
   pipeline_layout |-> "create_graphics_pipeline",
   graphics_pipeline |-> "create_graphics_pipeline",
   framebuffer |-> "create_framebuffers", command_pool |-> "create_command_pool",
   buffer |-> "create_vertex_buffer", buffer_memory |-> "create_vertex_buffer",
   command_buffer |-> "create_command_buffer",
   image_available_semaphore |-> "create_sync_objects",
   render_finished_semaphore |-> "create_sync_objects",
   in_flight_fence |-> "create_sync_objects"]

\* Setup follows `order`: the stages run so far are the first stages of order,
\* each one but the last has succeeded, and while no frame has been started
\* the objects are created in the order of their stages.
SetupFollows(order) ==
  /\ IsPrefix(StageNames, order)
  /\ \A i \in 1..(Len(stages) - 1) : stages[i][2] = "Ok"
  /\ frames = 0 =>
       \A i, j \in 1..Len(created) :
          i < j => Pos(order, StageOfKind[created[i]]) <= Pos(order, StageOfKind[created[j]])

\* The order of the stages in init_glfw and init_vulkan.
OrderOfSetup ==
  <<"init_glfw", "create_instance", "setup_debug_messenger", "create_surface",
    "pick_physical_device", "create_logical_device", "create_swap_chain",
    "create_image_views", "create_render_pass", "create_graphics_pipeline",
    "create_framebuffers", "create_command_pool", "create_vertex_buffer",
    "create_command_buffer", "create_sync_objects">>

\* The order C1 states: command buffer before vertex buffer.
OrderOfSetupClaimed ==
  <<"init_glfw", "create_instance", "setup_debug_messenger", "create_surface",
    "pick_physical_device", "create_logical_device", "create_swap_chain",
    "create_image_views", "create_render_pass", "create_graphics_pipeline",
    "create_framebuffers", "create_command_pool", "create_command_buffer",
    "create_vertex_buffer", "create_sync_objects">>

\* C1 (amended): setup runs its stages in the order window, instance, debug
\* messenger, surface, physical device, logical device, swapchain, image views,
\* render pass, graphics pipeline, framebuffers, command pool, vertex buffer,
\* command buffer, sync objects, each stage starting only after the previous
\* one has succeeded, and creates the objects in that order.
C1_SetupOrder == SetupFollows(OrderOfSetup)

\* C1 witness: setup has run all its stages, the vertex buffer and the command
\* buffer among the objects created.
C1_SetupComplete ==
  /\ pc = "main_loop" /\ frames = 0
  /\ StageNames = OrderOfSetup
  /\ Where(created, "buffer") # {} /\ Where(created, "command_buffer") # {}

\* C1 (as stated): the same with the command buffer before the vertex buffer.
C1_SetupOrderClaimed == SetupFollows(OrderOfSetupClaimed)

\* The step in which the VulkanApp is dropped, and the destroy calls it makes.
DropStep == pc \in {"return", "unwind"} /\ pc' = "exit"

DropCalls == SubSeq(destroyed', Len(destroyed) + 1, Len(destroyed'))

\* The members of the sequence s in the order of their first occurrence.
RECURSIVE Dedup(_)
Dedup(s) ==
  IF s = <<>> THEN <<>>
  ELSE LET d == Dedup(SubSeq(s, 1, Len(s) - 1))
       IN  IF s[Len(s)] \in Range(d) THEN d ELSE Append(d, s[Len(s)])

Reverse(s) == [i \in 1..Len(s) |-> s[Len(s) + 1 - i]]

Restrict(s, K) == LET in_K(x) == x \in K IN SelectSeq(s, in_K)

\* The kinds of the objects the destroy calls `calls` destroy, in the order in
\* which the calls first reach each kind; a call for a null handle destroys
\* nothing.
KindsDestroyed(calls) ==
  LET real(c) == c[2] # NULL
      dead    == SelectSeq(calls, real)
  IN  Dedup([i \in 1..Len(dead) |-> dead[i][1]])

\* Among the kinds K, calls destroys in the exact reverse of the order in which
\* cr first created: if A was created before B, B is destroyed before A.
Mirrors(cr, calls, K) ==
  LET kinds == KindsDestroyed(calls)
  IN  Restrict(kinds, K) = Reverse(Restrict(Dedup(cr), K \cap Range(kinds)))

\* The order of the destroy calls in drop.
OrderOfDrop ==
  <<"framebuffer", "image_view", "swap_chain", "buffer", "buffer_memory",
    "in_flight_fence", "render_finished_semaphore", "image_available_semaphore",
    "command_pool", "graphics_pipeline", "pipeline_layout", "render_pass",
    "device", "debug_messenger", "surface", "instance", "window">>

\* The kinds among which drop mirrors setup.
MirroredKinds ==
  {"window", "instance", "surface", "device", "render_pass", "pipeline_layout",
   "graphics_pipeline", "command_pool", "image_available_semaphore",
   "render_finished_semaphore", "in_flight_fence"}

\* The kinds of the swap chain, which cleanup_swap_chain destroys first.
SwapChainKinds == {"swap_chain", "image_view", "framebuffer"}

\* C2 (amended): drop destroys what exists in one fixed order: framebuffers,
\* image views, swap chain, vertex buffer, vertex buffer memory, fence,
\* render-finished semaphore, image-available semaphore, command pool, graphics
\* pipeline, pipeline layout, render pass, device, debug messenger, surface,
\* instance, window.  That is the reverse of the order of creation among
\* window, instance, surface, device, render pass, pipeline layout, graphics
\* pipeline, command pool, semaphores and fence, and among swap chain, image
\* views and framebuffers; the swap chain's objects and the vertex buffer go
\* first, the debug messenger goes before the surface, and drop makes no
\* destroy call for the command buffer or the shader modules.
DropFollowsOrder(cr, calls) ==
  /\ \A i \in 1..Len(calls) : Where(OrderOfDrop, calls[i][1]) # {}
  /\ \A i \in 1..(Len(calls) - 1) :
       Pos(OrderOfDrop, calls[i][1]) <= Pos(OrderOfDrop, calls[i + 1][1])
  /\ Mirrors(cr, calls, MirroredKinds)
  /\ Mirrors(cr, calls, SwapChainKinds)

C2_DropOrder == [][DropStep => DropFollowsOrder(created, DropCalls)]_vars

\* C2 witness: the VulkanApp has been dropped after a complete setup, with
\* every kind of object destroyed.
C2_DroppedAfterSetup ==
  /\ pc = "exit"
  /\ StageNames = OrderOfSetup /\ stages[Len(stages)][2] = "Ok"
  /\ \A k \in (MirroredKinds \cup SwapChainKinds \cup {"buffer", "buffer_memory", "debug_messenger"}) :
        \E i \in 1..Len(destroyed) : destroyed[i] = <<k, HANDLE>>

\* C2 (as stated): drop destroys in the exact reverse of the order of
\* creation, for any two kinds of object.
C2_ExactReverse == [][DropStep => Mirrors(created, DropCalls, Range(OrderOfDrop))]_vars

\* Setup has run all its stages and the last one has succeeded.
SetupDone ==
  /\ StageNames = OrderOfSetup
  /\ \A i \in 1..Len(stages) : stages[i][2] = "Ok"

\* The destroy calls of this step.
NewDestroyCalls == SubSeq(destroyed', Len(destroyed) + 1, Len(destroyed'))

\* Kinds of object that live until the VulkanApp is dropped.
KindsOfDrop == Range(OrderOfDrop) \ SwapChainKinds

\* C3: setup, render loop and teardown come in this order.  A loop iteration
\* is started and a frame is submitted only when every setup stage has
\* succeeded; the VulkanApp is dropped only when main_loop has returned after
\* a complete setup or when setup or drawing has failed, and only that step
\* destroys an object that lives until teardown; the drop creates nothing and
\* draws nothing, and nothing is created or drawn after it.
C3_Phases ==
  [][/\ (frames' > frames \/ gpu'.submitted > gpu.submitted) => SetupDone
     /\ DropStep => (err # "none" \/ (SetupDone /\ pc = "return"))
     /\ (\E i \in 1..Len(NewDestroyCalls) : NewDestroyCalls[i][1] \in KindsOfDrop) => DropStep
     /\ (DropStep \/ pc = "exit") =>
          /\ created' = created /\ stages' = stages
          /\ frames' = frames /\ gpu'.submitted = gpu.submitted
          /\ pc' = "exit"]_vars

\* C3 witness: a run through all three phases: frames were submitted, the
\* loop was left without an error, and the VulkanApp has been dropped.
C3_AllPhases ==
  /\ pc = "exit" /\ err = "none"
  /\ SetupDone /\ gpu.submitted > 0
  /\ \E i \in 1..Len(destroyed) : destroyed[i] = <<"window", HANDLE>>

\* The API calls of setup that C4 lists, by the name of the call.
CheckedSetupCalls ==
  {"vkCreateInstance", "vkCreateDebugUtilsMessengerEXT", "glfwCreateWindowSurface",
   "vkCreateDevice", "vkCreateSwapchainKHR", "vkCreateImageView", "vkCreateRenderPass",
   "vkCreatePipelineLayout", "vkCreateGraphicsPipelines", "vkCreateFramebuffer",
   "vkCreateCommandPool", "vkCreateBuffer", "vkAllocateMemory",
   "vkAllocateCommandBuffers", "vkCreateSemaphore", "vkCreateFence"}

\* C4: when one of the listed API calls of a setup stage has returned a failure
\* code, the stage has returned an error, no later stage has run, main is
\* unwinding or has exited, and the render loop was never entered.  (The same
\* calls made again by recreate_swap_chain end the run after a complete setup.)
C4_SetupFailureAborts ==
  /\ \A i \in 1..Len(stages) :
        stages[i][2] # "Ok" =>
          /\ i = Len(stages)
          /\ pc \in {"unwind", "exit", "crashed"}
          /\ frames = 0 /\ gpu.submitted = 0
  /\ failed \in CheckedSetupCalls =>
       /\ pc \in {"unwind", "exit"}
       /\ SetupDone \/ stages[Len(stages)][2] = "Err"

\* C4 witness: the last call of setup, vkCreateFence, has failed and main has
\* exited.
C4_FenceFailed ==
  /\ pc = "exit" /\ failed = "vkCreateFence"
  /\ Len(stages) = Len(OrderOfSetup)
  /\ stages[Len(stages)] = <<"create_sync_objects", "Err">>

\* C5 (as stated): a failure code from any API call leads to an error
\* outcome: once a call has returned a failure code, main is unwinding or has
\* exited (or the process was killed), and makes no further call.
C5_EveryCodeChecked == failed # "none" => pc \in {"unwind", "exit", "crashed"}

\* The last setup call that has run and its result.
LastStage == stages[Len(stages)]

\* A device is acceptable: a graphics family, a present family, every required
\* extension, at least one surface format and one present mode.
Acceptable(dev) ==
  /\ \E i \in 1..Len(dev.families) : dev.families[i].graphics
  /\ \E i \in 1..Len(dev.families) : dev.families[i].present
  /\ \A e \in Range(DEVICE_EXTENSIONS) : \E k \in 1..Len(dev.extensions) : dev.extensions[k] = e
  /\ Len(dev.formats) >= 1
  /\ Len(dev.present_modes) >= 1

AcceptableDevices == {i \in 1..Len(devices) : Acceptable(devices[i])}

\* C6: pick_physical_device selects the first acceptable device of the
\* enumeration and examines the devices up to it and none after it; when the
\* list is empty or holds no acceptable device it returns an error, having
\* examined every device, and physical_device stays null.
C6_PicksFirstAcceptable ==
  LastStage[1] = "pick_physical_device" =>
    IF AcceptableDevices = {}
      THEN /\ LastStage[2] = "Err"
           /\ app.physical_device = NULL
           /\ examined = [i \in 1..Len(devices) |-> i]
      ELSE LET first == CHOOSE i \in AcceptableDevices : \A j \in AcceptableDevices : i <= j
           IN  /\ LastStage[2] = "Ok"
               /\ app.physical_device = first
               /\ examined = [i \in 1..first |-> i]

\* C6 witness: the first of two acceptable devices was picked and the second
\* one was not examined.
C6_SecondNotExamined ==
  /\ LastStage = <<"pick_physical_device", "Ok">>
  /\ AcceptableDevices = {1, 2}
  /\ app.physical_device = 1 /\ examined = <<1>>

\* The lowest index (0-based) of a family of fams that can play the role.
LowestGraphics(fams) ==
  CHOOSE i \in 0..(Len(fams) - 1) :
    fams[i + 1].graphics /\ \A j \in 0..(i - 1) : ~fams[j + 1].graphics

LowestPresent(fams) ==
  CHOOSE i \in 0..(Len(fams) - 1) :
    fams[i + 1].present /\ \A j \in 0..(i - 1) : ~fams[j + 1].present

\* C7 (as stated): find_queue_families returns, for the device that was
\* picked, the lowest-indexed family with the graphics bit as graphics_family
\* and the lowest-indexed family that can present as present_family.
C7_LowestFamilies ==
  LastStage[1] = "create_logical_device" =>
    /\ queue_fam.graphics_family = Some(LowestGraphics(devices[1].families))
    /\ queue_fam.present_family = Some(LowestPresent(devices[1].families))

\* An entry of a format list is the one choose_swap_surface_format looks for.
Wanted(f) == f.format = B8G8R8A8_SRGB /\ f.colorSpace = SRGB_NONLINEAR

\* C8: choose_swap_surface_format returns None exactly when the list is
\* empty; otherwise the index of the first entry with B8G8R8A8_SRGB and
\* SRGB_NONLINEAR, or 0 when no entry has both; the index is within the list,
\* and the entry at it is the format of the swap chain create info.
C8_FirstWantedFormat ==
  LastStage[1] = "create_swap_chain" =>
    LET fmts == devices[1].formats
        idx  == sc.surface_format_idx
    IN  /\ (idx = None) <=> (fmts = <<>>)
        /\ idx # None =>
             /\ unwrap(idx) \in 0..(Len(fmts) - 1)
             /\ IF \E i \in 1..Len(fmts) : Wanted(fmts[i])
                  THEN /\ Wanted(fmts[unwrap(idx) + 1])
                       /\ \A i \in 1..unwrap(idx) : ~Wanted(fmts[i])
                  ELSE unwrap(idx) = 0
             /\ sc.create_info # <<>>
             /\ sc.create_info[1].imageFormat = fmts[unwrap(idx) + 1].format
             /\ sc.create_info[1].imageColorSpace = fmts[unwrap(idx) + 1].colorSpace

\* C8 witness: the wanted format is the second entry of the list, behind an
\* entry with the wanted format in another colour space, and was chosen.
C8_SecondEntryChosen ==
  /\ LastStage = <<"create_swap_chain", "Ok">>
  /\ Len(devices[1].formats) = 2
  /\ devices[1].formats[1].format = B8G8R8A8_SRGB /\ ~Wanted(devices[1].formats[1])
  /\ Wanted(devices[1].formats[2])
  /\ sc.surface_format_idx = Some(1)

\* C9 (amended): the present mode put into the swap chain create info is FIFO
\* whatever present modes the device enumerates: the list is not looked at,
\* and the mode is a member of it only when the list holds FIFO.
C9_AlwaysFifo ==
  (LastStage[1] = "create_swap_chain" /\ sc.create_info # <<>>) =>
    /\ sc.create_info[1].presentMode = FIFO
    /\ sc.present_modes = devices[1].present_modes

\* C9 witness: the device lists MAILBOX before FIFO and the swap chain was
\* created with FIFO.
C9_FifoOverMailbox ==
  /\ LastStage = <<"create_swap_chain", "Ok">>
  /\ devices[1].present_modes = <<MAILBOX, FIFO>>
  /\ sc.create_info[1].presentMode = FIFO

\* C9 (as stated): the present mode of the create info is a member of the
\* list of present modes the device enumerates.
C9_ModeFromList ==
  (LastStage[1] = "create_swap_chain" /\ sc.create_info # <<>>) =>
    sc.create_info[1].presentMode \in Range(devices[1].present_modes)

\* What C10 says of a returned color_offset, for the layout it was run on.
OffsetsRight(o) ==
  LET t == o.types IN
  /\ pos_offset = 0
  /\ o.offset % t.scalar = 0 /\ o.offset >= t.pos_size
  /\ \A m \in t.pos_size..(o.offset - 1) : m % t.scalar # 0
  /\ pos_offset + t.pos_size <= o.offset
  /\ o.offset + color_size(t) <= size_of_Vertex(t)
  /\ t = VertexTypes =>
       /\ o.offset = 8
       /\ size_of_Vertex(t) = 20
       /\ pos_offset + 8 <= size_of_Vertex(t) /\ o.offset + 12 <= size_of_Vertex(t)

\* C10: pos_offset is 0; color_offset returns the smallest multiple of the
\* alignment of the colour field that is not below the size of the position
\* field (8 for the program's f32 fields); the two fields lie inside the
\* record without overlapping; and the loop of color_offset terminates.
C10_Offsets ==
  /\ [](offs.pc = "done" => OffsetsRight(offs))
  /\ <>(offs.pc = "done")

\* C10 witness: color_offset has returned 8 for the program's Vertex.
C10_VertexOffsets ==
  /\ offs.pc = "done" /\ offs.types = VertexTypes
  /\ offs.offset = 8 /\ pos_offset = 0

\* The commands of a command buffer that are calls of op.
CallsOf(commands, op) == SelectSeq(commands, LAMBDA c : c.op = op)

\* A command buffer that draws the triangle into framebuffer i: one render
\* pass, begun on framebuffer i and ended last, and in it the vertex buffer
\* bound at binding 0 and one draw of 3 vertices, 1 instance, from vertex 0.
DrawsTriangle(commands, i, buffer) ==
  /\ commands # <<>>
  /\ Len(CallsOf(commands, "vkCmdBeginRenderPass")) = 1
  /\ commands[1].op = "vkCmdBeginRenderPass" /\ commands[1].args[1] = i
  /\ Len(CallsOf(commands, "vkCmdEndRenderPass")) = 1
  /\ commands[Len(commands)].op = "vkCmdEndRenderPass"
  /\ CallsOf(commands, "vkCmdBindVertexBuffers")
       = <<Cmd("vkCmdBindVertexBuffers", <<0, 1, buffer, 0>>)>>
  /\ CallsOf(commands, "vkCmdDraw") = <<Cmd("vkCmdDraw", <<3, 1, 0, 0>>)>>
  /\ \E b, d \in 1..Len(commands) :
       /\ commands[b].op = "vkCmdBindVertexBuffers"
       /\ commands[d].op = "vkCmdDraw"
       /\ b < d

\* C11: every frame that is submitted draws the triangle: the vertex buffer
\* exists, has the size of 3 Vertex records (3 * 20 bytes) with memory bound
\* to it that holds the 3 records of VERTICES, and the submitted command buffer
\* binds it and draws 3 vertices, 1 instance, from vertex 0, in one render pass
\* on the framebuffer of the acquired image.
C11_TriangleDrawn ==
  frame.submitted =>
    /\ app.vertex_buffer # NULL
    /\ gpu.vertex_buffer.size = 3 * 20
    /\ gpu.vertex_buffer.bound
    /\ Len(gpu.vertex_buffer.memory) = 3
    /\ gpu.vertex_buffer.memory = VERTICES
    /\ DrawsTriangle(frame.commands, frame.image_index, app.vertex_buffer)

\* The stage fn has run and returned Ok.
StageOk(fn) == \E i \in 1..Len(stages) : stages[i] = <<fn, "Ok">>

\* The stage fn has run.
StageRun(fn) == \E i \in 1..Len(stages) : stages[i][1] = fn

\* C12: the validation layer is optional.  In a build without validation the
\* instance and the device are created with no layer, the instance with the
\* window library's extensions only, setup_debug_messenger returns Ok whenever
\* it is called and creates nothing, and no messenger is ever destroyed.  In a
\* build with validation the instance and the device name the validation
\* layer, the instance also the debug-utils extension, and a successful
\* setup_debug_messenger has created a messenger, after the instance.
C12_ValidationOptional ==
  /\ ~validation =>
       /\ \A i \in 1..Len(gpu.instance_info) :
            /\ gpu.instance_info[i].enabledLayerNames = <<>>
            /\ gpu.instance_info[i].enabledExtensionNames = GLFW_EXTENSIONS
       /\ \A i \in 1..Len(gpu.device_info) : gpu.device_info[i].enabledLayerNames = <<>>
       /\ StageRun("setup_debug_messenger") => StageOk("setup_debug_messenger")
       /\ app.debug_messenger = NULL
       /\ Where(created, "debug_messenger") = {}
       /\ \A i \in 1..Len(destroyed) : destroyed[i][1] # "debug_messenger"
  /\ validation =>
       /\ \A i \in 1..Len(gpu.instance_info) :
            /\ gpu.instance_info[i].enabledLayerNames = <<"VK_LAYER_KHRONOS_validation">>
            /\ gpu.instance_info[i].enabledExtensionNames
                 = GLFW_EXTENSIONS \o <<"VK_EXT_debug_utils">>
       /\ \A i \in 1..Len(gpu.device_info) :
            gpu.device_info[i].enabledLayerNames = <<"VK_LAYER_KHRONOS_validation">>
       /\ StageOk("setup_debug_messenger") =>
            /\ Where(created, "instance") # {}
            /\ Where(created, "debug_messenger") # {}
            /\ Pos(created, "instance") < Pos(created, "debug_messenger")
  /\ StageOk("create_instance") <=> gpu.instance_info # <<>>
  /\ StageOk("create_logical_device") <=> gpu.device_info # <<>>

\* C12 witness: a build without validation has run from setup to exit: an
\* instance and a device were created without layers, setup_debug_messenger
\* returned Ok, and the teardown is over.
C12_RunWithoutValidation ==
  /\ ~validation /\ pc = "exit" /\ SetupDone
  /\ gpu.instance_info # <<>> /\ gpu.device_info # <<>>
  /\ StageOk("setup_debug_messenger")
  /\ \E i \in 1..Len(destroyed) : destroyed[i][1] = "instance"

\* The message of the panic of init_vulkan.
LayersMissing == "Validation layers requested, but not available!"

\* C13: once the head of init_vulkan has run, setup was aborted with the
\* panic about the layers exactly when validation is enabled and some
\* requested layer name equals the name of no enumerated layer; and when it
\* was aborted, create_instance was never called and no instance exists.
C13_LayersChecked ==
  pc # "init_vulkan" =>
    /\ (err = LayersMissing) <=>
         /\ validation
         /\ ~(\A i \in 1..Len(VALIDATION_LAYERS) : VALIDATION_LAYERS[i] \in Range(layers))
    /\ err = LayersMissing =>
         /\ pc \in {"unwind", "exit"}
         /\ ~StageRun("create_instance")
         /\ app.vk_instance = NULL /\ gpu.instance_info = <<>>
         /\ Where(created, "instance") = {}

\* C13 witness: validation is enabled, the platform enumerates layers, none
\* of them the requested one, and init_vulkan has panicked.
C13_AbortedForLayers ==
  /\ validation /\ Len(layers) >= 2
  /\ "VK_LAYER_KHRONOS_validation_extra" \in Range(layers)
  /\ pc = "unwind" /\ err = LayersMissing

C15_WaitReturns ==
  /\ [](pc = "draw_frame" => gpu.fence = "signaled" \/ gpu.pending > 0)
  /\ (pc = "draw_frame") ~> (gpu.fence = "signaled" \/ pc # "draw_frame")

\* C15 witness: draw_frame is entered for a second frame while the fence,
\* reset by the first frame, is not signaled yet and the first submission is
\* still outstanding.
C15_EnteredUnsignaled ==
  /\ pc = "draw_frame" /\ frames = 2
  /\ gpu.fence = "unsignaled" /\ gpu.pending = 1 /\ gpu.submitted = 1

\* C16: at most one queue submission is outstanding at any time: the command
\* buffer is recorded again and submitted again only when the submission
\* before it has completed.
C16_OneOutstanding ==
  [][/\ gpu'.pending <= 1
     /\ gpu'.submitted # gpu.submitted => gpu.pending = 0]_vars

\* What draw_frame does on the results of its calls, over the step from its
\* acquire to its return or to its call of recreate_swap_chain, and over the
\* steps of a recreation entered from the acquire; ok_always says whether
\* that recreation is taken to end in Ok whatever its own calls return.
DrawFrameClassifies(ok_always) ==
  /\ (pc = "draw_frame_acquire" /\ pc' # pc) =>
       /\ frame'.acquire \in {VK_SUCCESS, VK_SUBOPTIMAL}
            => /\ err' # "Failed to acquire swap chain image!"
               /\ frame'.recreate # "acquire"
               /\ frame'.image_index \in 0..(Len(app.swap_chain_images) - 1)
       /\ frame'.acquire = VK_OUT_OF_DATE
            => /\ pc' = "recreate_swap_chain" /\ frame'.recreate = "acquire"
               /\ frame'.commands = <<>> /\ ~frame'.submitted /\ frame'.present = "none"
               /\ gpu' = gpu /\ app' = app
       /\ frame'.acquire \notin {VK_SUCCESS, VK_SUBOPTIMAL, VK_OUT_OF_DATE}
            => /\ pc' = "unwind" /\ frame'.res = "Err"
               /\ err' = "Failed to acquire swap chain image!"
               /\ ~frame'.submitted /\ gpu' = gpu
       /\ failed' = "vkQueueSubmit"
            => /\ pc' = "unwind" /\ frame'.res = "Err"
               /\ err' = "Failed to submit draw command buffer!"
               /\ frame'.present = "none" /\ gpu'.submitted = gpu.submitted
       /\ frame'.present \notin {"none", VK_SUCCESS, VK_SUBOPTIMAL, VK_OUT_OF_DATE}
            => IF app.framebuffer_resized
                 THEN pc' = "recreate_swap_chain" /\ frame'.recreate = "present"
                 ELSE /\ pc' = "unwind" /\ frame'.res = "Err"
                      /\ err' = "Failed to present swap chain image!"
       /\ frame'.present = VK_SUCCESS /\ ~app.framebuffer_resized
            => pc' = "main_loop" /\ frame'.res = "Ok"
  /\ (pc = "recreate_swap_chain" /\ frame.recreate = "acquire") =>
       /\ gpu'.submitted = gpu.submitted
       /\ frame'.commands = <<>> /\ ~frame'.submitted /\ frame'.present = "none"
       /\ pc' # pc =>
            IF ok_always \/ failed' = "none"
              THEN pc' = "main_loop" /\ frame'.res = "Ok"
              ELSE pc' = "unwind" /\ frame'.res = "Err"

\* C17 as stated: draw_frame continues on an acquire result of SUCCESS or
\* SUBOPTIMAL; on OUT_OF_DATE it recreates the swap chain and returns Ok with
\* nothing recorded, submitted or presented; on any other acquire result it
\* returns an error with nothing submitted; on a failed submit it returns an
\* error without presenting; on a present result other than SUCCESS,
\* SUBOPTIMAL or OUT_OF_DATE it returns an error unless the resize flag is
\* set.
C17_OutOfDateReturnsOk == [][DrawFrameClassifies(TRUE)]_vars

\* C17 amended: the same classification, except that on an acquire result of
\* OUT_OF_DATE draw_frame returns Ok only when recreate_swap_chain succeeds
\* and returns the error of recreate_swap_chain when it fails.
C17_ResultsClassified == [][DrawFrameClassifies(FALSE)]_vars

\* C17 witness: the acquire returned OUT_OF_DATE, nothing was recorded or
\* submitted, the recreation failed and draw_frame returned its error.
C17_RecreationFailed ==
  /\ pc = "unwind" /\ frame.recreate = "acquire" /\ frame.res = "Err"
  /\ failed = "vkCreateSwapchainKHR" /\ gpu.submitted = 0

\* C18: framebuffer_resized is set only where the window library runs the
\* resize callback (glfwPollEvents and glfwWaitEvents) and cleared only by
\* the step of draw_frame that goes on to recreate_swap_chain after the
\* present; a draw_frame entered with the flag set clears it and calls
\* recreate_swap_chain, unless a call fails or the acquire reports
\* OUT_OF_DATE; and the recreation so entered ends with the swap chain
\* rebuilt, unless a call fails or the window stays minimized.
C18_ResizeAnswered ==
  /\ [][/\ (~app.framebuffer_resized /\ app'.framebuffer_resized)
             => pc = "poll_events" \/ (pc = "recreate_swap_chain" /\ pc' = pc)
        /\ (app.framebuffer_resized /\ ~app'.framebuffer_resized)
             => /\ pc = "draw_frame_acquire" /\ pc' = "recreate_swap_chain"
                /\ frame'.recreate = "present"]_vars
  /\ (pc = "draw_frame" /\ app.framebuffer_resized)
       ~> \/ ~app.framebuffer_resized /\ pc = "recreate_swap_chain"
               /\ frame.recreate = "present"
          \/ pc = "unwind"
          \/ frame.recreate = "acquire"
  /\ (pc = "recreate_swap_chain" /\ frame.recreate = "present")
       ~> \/ pc = "main_loop" /\ frame.recreate = "present" /\ frame.res = "Ok"
               /\ Len(app.swap_chain_framebuffers) > 0
          \/ pc = "unwind"
          \/ fb_size = <<0, 0>>

\* C18 witness: the present succeeded, so only the flag set by the callback
\* sent draw_frame to recreate_swap_chain, and the flag is false again.
C18_FlagCleared ==
  /\ pc = "recreate_swap_chain" /\ frame.recreate = "present"
  /\ frame.acquire = VK_SUCCESS /\ frame.present = VK_SUCCESS
  /\ ~app.framebuffer_resized

\* C19: whenever draw_frame has returned Ok after having recreated the swap
\* chain, framebuffer_resized is false.
C19_NoSecondRecreation ==
  (pc = "main_loop" /\ frame.recreate # "none" /\ frame.res = "Ok")
    => ~app.framebuffer_resized

\* C20: recreate_swap_chain calls glfwWaitEvents only when the framebuffer
\* was minimized (width or height 0) when it was entered.
C20_WaitsOnlyMinimized ==
  (frame.recreate # "none" /\ frame.waited)
    => (frame.entry_size[1] = 0 \/ frame.entry_size[2] = 0)

\* C21: recreate_swap_chain calls vkCreateSwapchainKHR only when the
\* framebuffer's size at that moment is nonzero in both dimensions.
C21_CreatedWhenVisible ==
  [][(pc = "recreate_swap_chain" /\ pc' # pc /\ sc'.create_info # <<>>)
       => fb_size[1] # 0 /\ fb_size[2] # 0]_vars

\* The part of sequence t after its first n entries.
Tail_from(t, n) == SubSeq(t, n + 1, Len(t))

\* The fields of VulkanApp that are not the swap chain, its images, its
\* image views or its framebuffers (nor the resize flag).
KeptFields ==
  {"window", "vk_instance", "debug_messenger", "surface", "physical_device", "device",
   "graphics_queue", "present_queue", "render_pass", "pipeline_layout",
   "graphics_pipeline", "command_pool", "command_buffer", "image_available_semaphore",
   "render_finished_semaphore", "in_flight_fence", "vertex_buffer", "vertex_buffer_memory"}

C23_SwapChainListsAgree ==
  frame.commands # <<>> =>
    /\ app.swap_chain # NULL
    /\ Len(app.swap_chain_image_views) = Len(app.swap_chain_images)
    /\ Len(app.swap_chain_framebuffers) = Len(app.swap_chain_images)
    /\ NULL \notin Range(app.swap_chain_images)
    /\ NULL \notin Range(app.swap_chain_image_views)
    /\ NULL \notin Range(app.swap_chain_framebuffers)
    /\ frame.image_index < Len(app.swap_chain_framebuffers)

\* The object kinds the program creates and destroys by explicit calls.
DestroyedKinds == {destroyed[i][1] : i \in 1..Len(destroyed)}

\* How many objects of kind k were created, and how many destroy calls were
\* made for a non-null handle of kind k.
CreatedOf(k) == Len(SelectSeq(created, LAMBDA c : c = k))

DestroyedOf(k) == Len(SelectSeq(destroyed, LAMBDA d : d[1] = k /\ d[2] # NULL))

\* No kind of object has had more destroy calls than create calls.
DestroyedOnce == \A k \in DestroyedKinds : DestroyedOf(k) <= CreatedOf(k)

\* No image view exists that was made from an image of a swap chain that has
\* been destroyed.
NoStaleImageUsed ==
  \A i \in 1..Len(app.swap_chain_image_views) :
    (i <= Len(app.swap_chain_images) /\ app.swap_chain_image_views[i] # NULL)
      => app.swap_chain_images[i] # STALE

\* Calling cleanup_swap_chain a second time in a row destroys nothing and
\* changes nothing.
CleanupIdempotent ==
  LET c1 == cleanup_swap_chain_fn(app)
      c2 == cleanup_swap_chain_fn(c1.app)
  IN  c2.destroyed = <<>> /\ c2.app = c1.app

\* C24: no created handle is destroyed more than once, no handle is used
\* after it was destroyed, and cleanup_swap_chain is idempotent.
C24_NoDoubleDestroyNoStaleUse ==
  DestroyedOnce /\ NoStaleImageUsed /\ CleanupIdempotent

\* The kinds of object made from the logical device, and those made from the
\* instance.
DeviceOwned ==
  {"framebuffer", "image_view", "swap_chain", "buffer", "buffer_memory", "in_flight_fence",
   "render_finished_semaphore", "image_available_semaphore", "command_pool",
   "graphics_pipeline", "pipeline_layout", "render_pass"}

InstanceOwned == {"device", "debug_messenger", "surface"}

\* How far up the chain of creation a kind of object is: what was made from
\* the device, what was made from the instance, the instance, the window.
Level(kind) ==
  IF kind \in DeviceOwned THEN 1
  ELSE IF kind \in InstanceOwned THEN 2
  ELSE IF kind = "instance" THEN 3 ELSE 4

\* The destroy calls of a drop come children first: what was made from the
\* device before the device, the device, the debug messenger and the surface
\* before the instance, the instance before the window.
ChildrenFirst(calls) ==
  \A i \in 1..(Len(calls) - 1) : Level(calls[i][1]) <= Level(calls[i + 1][1])

DropsDeviceOwned == \E i \in 1..Len(DropCalls) : DropCalls[i][1] \in DeviceOwned

\* A drop reached from one of the given places of main, after at least one
\* submission, finds no submission outstanding when it destroys what was made
\* from the device.
IdleAtDrop(places) ==
  (DropStep /\ pc \in places /\ gpu.submitted > 0 /\ DropsDeviceOwned) => gpu.pending = 0

\* C26: teardown never destroys a device-owned object while a queue
\* submission is outstanding, on every path that reaches it after a submitted
\* frame: the normal close and an error returned by draw_frame alike.
C26_IdleBeforeTeardown == [][IdleAtDrop({"return", "unwind"})]_vars

\* What the step now taken has created.
NewCreated == SubSeq(created', Len(created) + 1, Len(created'))

\* The field of the application that holds the handle of a buffer object.
BufferField(a, kind) == IF kind = "buffer" THEN a.vertex_buffer ELSE a.vertex_buffer_memory

\* C27: when create_buffer has returned inside create_vertex_buffer, every
\* buffer and every memory allocation it created is either stored in the
\* application, where teardown finds it, or already destroyed: no error path
\* leaves a created buffer that nothing will destroy.
C27_NoBufferLeft ==
  [][(pc = "create_vertex_buffer" /\ pc' # pc)
       => \A kind \in {"buffer", "buffer_memory"} :
            kind \in Range(NewCreated)
              => \/ BufferField(app', kind) # NULL
                 \/ \E i \in 1..Len(NewDestroyCalls) : NewDestroyCalls[i] = <<kind, HANDLE>>]_vars

\* The panics of an unwrap or expect of a queue family index.
FamilyPanics ==
  {"called Option::unwrap() on a None value", "indices should have graphics family idx"}

\* The create info of a swap chain names the families g and p as the code
\* means it to: both, shared, when they differ, and none otherwise.
SharingFollows(info, g, p) ==
  IF g # p
    THEN info.imageSharingMode = "VK_SHARING_MODE_CONCURRENT" /\ info.queueFamilyIndices = <<g, p>>
    ELSE info.imageSharingMode = "VK_SHARING_MODE_EXCLUSIVE" /\ info.queueFamilyIndices = <<>>

\* C28: once pick_physical_device has succeeded, every query of the queue
\* families of the picked device yields both indices, the same each time, so
\* that no unwrap or expect of an index panics; every swap chain, of the setup
\* and of a recreation, is created CONCURRENT with both indices exactly when
\* they differ and EXCLUSIVE otherwise, and the logical device is created
\* with one queue per distinct index.
C28_FamiliesOfPickedDevice ==
  StageOk("pick_physical_device") =>
    LET q == my_queue_families(app, devices)
        g == unwrap(q.graphics_family)
        p == unwrap(q.present_family)
    IN  /\ is_complete(q)
        /\ err \notin FamilyPanics
        /\ StageRun("create_logical_device") => queue_fam = q
        /\ gpu.device_info # <<>> =>
              /\ gpu.device_info[1].queueFamilies = {g, p}
              /\ Cardinality(gpu.device_info[1].queueFamilies) = IF g = p THEN 1 ELSE 2
        /\ sc.create_info # <<>> => SharingFollows(sc.create_info[1], g, p)

\* A swap chain was recreated for a device whose two families differ, after
\* the command pool was made.
C28_SharedAfterRecreation ==
  /\ CreatedOf("swap_chain") >= 2
  /\ app.command_pool # NULL
  /\ sc.create_info # <<>>
  /\ sc.create_info[1].imageSharingMode = "VK_SHARING_MODE_CONCURRENT"
  /\ Cardinality(gpu.device_info[1].queueFamilies) = 2

\* Among the families 0..k of fams one has the graphics bit and one can
\* present.
BothUpTo(fams, k) ==
  /\ \E i \in 0..k : fams[i + 1].graphics
  /\ \E j \in 0..k : fams[j + 1].present

\* The first family index at which both roles have been seen.
FirstBoth(fams) ==
  CHOOSE k \in 0..(Len(fams) - 1) :
    BothUpTo(fams, k) /\ \A m \in 0..(k - 1) : ~BothUpTo(fams, m)

\* C29: find_queue_families reports both indices exactly when the device
\* has a family with the graphics bit and a family that can present, and its
\* scan stops at the first family index at which both indices are set:
\* nothing beyond that index is scanned or reported.
C29_CompleteAndStops ==
  LET fams  == devices[1].families
      q     == find_queue_families(devices[1])
      both  == Len(fams) > 0 /\ BothUpTo(fams, Len(fams) - 1)
      n     == find_queue_families_scanned(fams, 0, [graphics_family |-> None,
                                                     present_family |-> None])
  IN  /\ is_complete(q) <=> both
      /\ StageRun("pick_physical_device") => (StageOk("pick_physical_device") <=> both)
      /\ n = IF both THEN FirstBoth(fams) + 1 ELSE Len(fams)
      /\ both => /\ unwrap(q.graphics_family) <= FirstBoth(fams)
                 /\ unwrap(q.present_family) <= FirstBoth(fams)
                 /\ FirstBoth(fams) \in {unwrap(q.graphics_family), unwrap(q.present_family)}
      /\ StageRun("create_logical_device") => queue_fam = q

\* create_logical_device has used the indices of a device that has a family
\* with a role beyond the index at which the scan stopped.
C29_StoppedBeforeEnd ==
  /\ StageOk("create_logical_device")
  /\ LET fams == devices[1].families
     IN  /\ FirstBoth(fams) + 1 < Len(fams)
         /\ fams[Len(fams)].graphics /\ fams[Len(fams)].present

\* x lies between lo and hi.
Within(x, lo, hi) == lo <= x /\ x <= hi

\* C30: choose_swap_extent returns the current extent of the surface
\* unchanged when its width is not the sentinel; otherwise it returns the
\* framebuffer size with width and height each clamped between the least and
\* the largest extent of the surface, so that the result lies within those
\* bounds in both dimensions.
C30_ExtentChosen ==
  StageRun("create_swap_chain") =>
    LET e == sc.extent IN
    /\ e = choose_swap_extent(caps, fb_size)
    /\ StageOk("create_swap_chain") =>
          app.swap_chain_extent = e /\ sc.create_info[1].imageExtent = e
    /\ IF caps.currentExtent[1] # U32_MAX THEN e = caps.currentExtent
       ELSE \A d \in 1..2 :
              LET lo == caps.minImageExtent[d]
                  hi == caps.maxImageExtent[d]
              IN  /\ fb_size[d] < lo => e[d] = lo
                  /\ fb_size[d] > hi => e[d] = hi
                  /\ Within(fb_size[d], lo, hi) => e[d] = fb_size[d]
    /\ \A d \in 1..2 : Within(e[d], caps.minImageExtent[d], caps.maxImageExtent[d])

\* A swap chain was created with an extent that was raised to the least width
\* and lowered to the largest height.
C30_ClampedBothWays ==
  /\ StageOk("create_swap_chain")
  /\ caps.currentExtent[1] = U32_MAX
  /\ fb_size[1] < caps.minImageExtent[1]
  /\ fb_size[2] > caps.maxImageExtent[2]
  /\ app.swap_chain_extent = <<caps.minImageExtent[1], caps.maxImageExtent[2]>>

\* C31: the image count create_swap_chain asks for is minImageCount + 1,
\* lowered to maxImageCount when that is nonzero and smaller; so it is never
\* below minImageCount and, when maxImageCount is nonzero, never above it,
\* a maxImageCount of 0 being no limit.
C31_ImageCount ==
  sc.create_info # <<>> =>
    LET asked == sc.create_info[1].minImageCount
        lo    == caps.minImageCount
        hi    == caps.maxImageCount
    IN  /\ asked = IF hi # 0 /\ hi < lo + 1 THEN hi ELSE lo + 1
        /\ asked >= lo
        /\ hi # 0 => asked <= hi
        /\ hi = 0 => asked = lo + 1

\* A swap chain was created with the image count lowered to maxImageCount.
C31_Lowered ==
  /\ StageOk("create_swap_chain")
  /\ caps.maxImageCount # 0
  /\ caps.minImageCount + 1 > caps.maxImageCount
  /\ sc.create_info[1].minImageCount = caps.maxImageCount
  /\ Len(app.swap_chain_images) = caps.maxImageCount

====
